---- MODULE Spec2Model ----
(***************************************************************************)
(* A model of the NES emulation core of boathouse2112/nes: the address bus *)
(* (src/src/bus.rs), the graphics chip (src/src/ppu.rs) and the processor  *)
(* (src/src/cpu.rs), with the instruction table of src/src/instruction.rs. *)
(*                                                                         *)
(* The machine is the record [cpu, cpu_ram, ppu, rom, build, panic, ret].  *)
(* Every function of the source is an operator from machine to machine; a  *)
(* Rust panic! / unimplemented! / failed bounds check sets the field panic *)
(* to its diagnostic and the operators after it in the same handler do     *)
(* nothing (the process is gone).  Arrays that start zeroed ([0; N]) are   *)
(* kept as the finite map of their non-zero cells.                         *)
(***************************************************************************)
EXTENDS Integers, Sequences, FiniteSets, TLC

VARIABLES
    cpu,      \* Cpu { pc, sp, a, x, y, flags }
    cpu_ram,  \* Bus.cpu_ram: [u8; 2048]
    ppu,      \* Ppu { ... }
    rom,      \* Rom { program_rom, mirroring }
    build,    \* "debug" (integer overflow panics) or "release" (it wraps)
    panic,    \* "none", or the diagnostic of the panic that ended the run
    op,       \* the last operation invoked: [name, address, value]
    ret,      \* what it returned: a byte or word, 1/0 for true/false, -1 for ()
    loop,     \* the run loop: [phase, frames]
    hist      \* history: [nmi_enabled_ever, tick_request, credit, polls_true, ops, ram,
              \*           before, prev]

vars == <<cpu, cpu_ram, ppu, rom, build, panic, op, ret, loop, hist>>

(***************************************************************************)
(* Program constants                                                       *)
(***************************************************************************)
RAM_MIRRORS_END == 8191
PPU_REGISTERS_START == 8192
PPU_REGISTERS_MIRRORS_END == 16383
ROM_START == 49152
ROM_END == 65535
CPU_RAM_MIRROR_DOWN_MASK == 2047
PPU_MIRROR_DOWN_MASK == 8199
PROGRAM_ROM_PAGE_SIZE == 16384
CPU_PAGE_SIZE == 256
CHR_ROM_END == 8191
VRAM_START == 8192
VRAM_END == 12287
PALETTE_START == 16128
PALETTE_END == 16383
NAMETABLE_SIZE == 1024
ADDRESS_REGISTER_MIRROR_DOWN_MASK == 16383
GENERATE_NMI == 128
VRAM_ADDRESS_INCREMENT == 4
VBLANK_STARTED == 128
SCANLINE_CYCLES == 341
VBLANK_SCANLINE == 241
FRAME_SCANLINES == 262
OAM_DMA_ADDRESS == 16404

(***************************************************************************)
(* Bit operations on unsigned integers (Rust's & and |, bitflags'          *)
(* contains / insert / remove).                                            *)
(***************************************************************************)
RECURSIVE BitAnd(_, _)
BitAnd(a, b) ==
    IF a = 0 \/ b = 0 THEN 0
    ELSE (a % 2) * (b % 2) + 2 * BitAnd(a \div 2, b \div 2)

BitOr(a, b) == a + b - BitAnd(a, b)

contains(bits, flag) == BitAnd(bits, flag) = flag

insert(bits, flag) == BitOr(bits, flag)

\* Mutant of remove: no bit would be cleared.
remove_none(bits, flag) == bits

remove(bits, flag) == bits - BitAnd(bits, flag)

(***************************************************************************)
(* Zero-initialised byte arrays, kept as the map of their non-zero cells.  *)
(***************************************************************************)
ZeroArray == [i \in {} |-> 0]

ArrayGet(arr, i) == IF i \in DOMAIN arr THEN arr[i] ELSE 0

ArraySet(arr, i, v) ==
    CASE v # 0 -> (i :> v) @@ arr
      [] v = 0 /\ i \in DOMAIN arr -> [j \in DOMAIN arr \ {i} |-> arr[j]] @@ ZeroArray
      [] OTHER -> arr

(***************************************************************************)
(* The cartridge's buffers are inputs.  Their contents are fixed per       *)
(* image; a byte outside the programs below is a filler that differs       *)
(* between the lower and the upper 16 KiB of a 32 KiB buffer.              *)
(***************************************************************************)
ProgramBytes(image) ==
    CASE image = 1 ->
           \* C000: LDA #$80; STA $2000; C005: LDA $2002; JMP $C005
           \* C010: RTI      vectors NMI=$C010 RESET=$C000 IRQ=$C010
           ( 0 :> 169 @@ 1 :> 128 @@ 2 :> 141 @@ 3 :> 0 @@ 4 :> 32 @@
             5 :> 173 @@ 6 :> 2 @@ 7 :> 32 @@ 8 :> 76 @@ 9 :> 5 @@ 10 :> 192 @@
             16 :> 64 @@
             16378 :> 16 @@ 16379 :> 192 @@ 16380 :> 0 @@ 16381 :> 192 @@
             16382 :> 16 @@ 16383 :> 192 )
      [] image = 2 ->
           \* C000: NOP; JMP $C000 (NMI never enabled)   C010: RTI
           ( 0 :> 234 @@ 1 :> 76 @@ 2 :> 0 @@ 3 :> 192 @@
             16 :> 64 @@
             16378 :> 16 @@ 16379 :> 192 @@ 16380 :> 0 @@ 16381 :> 192 @@
             16382 :> 16 @@ 16383 :> 192 )
      [] image = 3 ->
           \* C000: BNE -128   FFFC: BCC +127   FFFE: BPL +2
           ( 0 :> 208 @@ 1 :> 128 @@
             16380 :> 144 @@ 16381 :> 127 @@ 16382 :> 16 @@ 16383 :> 2 )
      [] OTHER -> ( 16378 :> 52 @@ 16379 :> 18 )

program_rom(r, i) ==
    LET bytes == ProgramBytes(r.image)
    IN  IF i \in DOMAIN bytes THEN bytes[i]
        ELSE ((i % 251) + 7 * (i \div PROGRAM_ROM_PAGE_SIZE) + 1) % 256

chr_rom(p, i) == ((i % 253) + 3) % 256

(***************************************************************************)
(* Rust panics                                                             *)
(***************************************************************************)
\* Mutant of Panic: the failing access would first reset the two write toggles,
\* as a status read does.
Panic_after_reset_latch(m, why) ==
    IF m.panic = "none"
    THEN [m EXCEPT !.panic = why, !.ret = -1,
                   !.ppu.scroll.x_scroll_active = TRUE,
                   !.ppu.vram_address.high_byte_active = TRUE]
    ELSE m

Panic(m, why) ==
    IF m.panic = "none" THEN [m EXCEPT !.panic = why, !.ret = -1] ELSE m

Ok(m) == m.panic = "none"

Return(m, v) == [m EXCEPT !.ret = v]

(***************************************************************************)
(* ppu.rs: AddressRegister                                                 *)
(***************************************************************************)
get(reg) == reg.high_byte * 256 + reg.low_byte

set(reg, value) ==
    [reg EXCEPT !.high_byte = value \div 256, !.low_byte = value % 256]

\* Mutant of mirror_down: the address would keep its two top bits.
mirror_down_none(reg) == reg

mirror_down(reg) == set(reg, BitAnd(get(reg), ADDRESS_REGISTER_MIRROR_DOWN_MASK))

update(reg, value) ==
    LET r1 == IF reg.high_byte_active
              THEN [reg EXCEPT !.high_byte = value]
              ELSE [reg EXCEPT !.low_byte = value]
        r2 == [r1 EXCEPT !.high_byte_active = ~reg.high_byte_active]
    IN  mirror_down(r2)

increment(reg, amount) == mirror_down(set(reg, (get(reg) + amount) % 65536))

vram_address_increment_amount(control) ==
    IF contains(control, VRAM_ADDRESS_INCREMENT) THEN 32 ELSE 1

increment_address(p) ==
    [p EXCEPT !.vram_address =
        increment(p.vram_address, vram_address_increment_amount(p.control))]

\* ScrollRegister::update
scroll_update(s, value) ==
    LET s1 == IF s.x_scroll_active
              THEN [s EXCEPT !.x_scroll = value]
              ELSE [s EXCEPT !.y_scroll = value]
    IN  [s1 EXCEPT !.x_scroll_active = ~s.x_scroll_active]

\* Mutant of mirror_down_vram: Vertical would pair the tables as Horizontal does.
mirror_down_vram_adjacent(mirroring, address) ==
    IF (address - VRAM_START) \div NAMETABLE_SIZE \in {0, 1}
    THEN address % NAMETABLE_SIZE
    ELSE NAMETABLE_SIZE + (address % NAMETABLE_SIZE)

\* The physical VRAM index of a nametable address, or -1 where the match
\* falls through to its panic arm (FourScreen).
mirror_down_vram(mirroring, address) ==
    LET vram_index == address - VRAM_START
        nametable_index == vram_index \div NAMETABLE_SIZE
        nametable_offset == address % NAMETABLE_SIZE
    IN  CASE mirroring = "Horizontal" /\ nametable_index \in {0, 1} -> nametable_offset
          [] mirroring = "Horizontal" /\ nametable_index \in {2, 3} ->
               NAMETABLE_SIZE + nametable_offset
          [] mirroring = "Vertical" /\ nametable_index \in {0, 2} -> nametable_offset
          [] mirroring = "Vertical" /\ nametable_index \in {1, 3} ->
               NAMETABLE_SIZE + nametable_offset
          [] OTHER -> -1

(***************************************************************************)
(* ppu.rs: Ppu                                                             *)
(***************************************************************************)
Ppu_new(r) ==
    [ chr_rom_len |-> r.chr_rom_len, palette_table |-> ZeroArray,
      vram |-> ZeroArray, oam |-> ZeroArray, mirroring |-> r.mirroring,
      control |-> 0, mask |-> 0, status |-> 0, oam_address |-> 0,
      scroll |-> [x_scroll |-> 0, y_scroll |-> 0, x_scroll_active |-> TRUE],
      vram_address |-> [high_byte |-> 0, low_byte |-> 0, high_byte_active |-> TRUE],
      nmi_interrupt |-> FALSE, data_buffer |-> 0, cycles |-> 0, scanline |-> 0 ]

\* Mutant of write_to_control: enabling raises the request outside VBlank too.
write_to_control_any_line(m, value) ==
    LET raise == ~contains(m.ppu.control, GENERATE_NMI) /\ contains(value, GENERATE_NMI)
    IN  Return([m EXCEPT !.ppu.control = value,
                         !.ppu.nmi_interrupt = IF raise THEN TRUE ELSE @], -1)

\* Mutant of write_to_control: level-triggered, it forgets nmi_before_write.
write_to_control_level(m, value) ==
    LET raise == contains(value, GENERATE_NMI) /\ contains(m.ppu.status, VBLANK_STARTED)
    IN  Return([m EXCEPT !.ppu.control = value,
                         !.ppu.nmi_interrupt = IF raise THEN TRUE ELSE @], -1)

write_to_control(m, value) ==
    LET nmi_before_write == contains(m.ppu.control, GENERATE_NMI)
        nmi_after_write == contains(value, GENERATE_NMI)
        raise == ~nmi_before_write /\ nmi_after_write
                 /\ contains(m.ppu.status, VBLANK_STARTED)
    IN  Return([m EXCEPT !.ppu.control = value,
                         !.ppu.nmi_interrupt = IF raise THEN TRUE ELSE @], -1)

write_to_mask(m, value) == Return([m EXCEPT !.ppu.mask = value], -1)

write_to_oam_address(m, value) == Return([m EXCEPT !.ppu.oam_address = value], -1)

write_to_oam_data(m, value) ==
    Return([m EXCEPT !.ppu.oam = ArraySet(@, m.ppu.oam_address, value),
                     !.ppu.oam_address = (@ + 1) % 256], -1)

\* Mutant of write_to_scroll: the two ports would share one write toggle.
write_to_scroll_shared_latch(m, value) ==
    Return([m EXCEPT !.ppu.scroll = scroll_update(@, value),
                     !.ppu.vram_address.high_byte_active = ~@], -1)

write_to_scroll(m, value) ==
    Return([m EXCEPT !.ppu.scroll = scroll_update(@, value)], -1)

write_to_vram_address(m, value) ==
    Return([m EXCEPT !.ppu.vram_address = update(@, value)], -1)

write_to_data(m, value) ==
    LET address == get(m.ppu.vram_address)
        idx == mirror_down_vram(m.ppu.mirroring, address)
        stored ==
            CASE address <= CHR_ROM_END -> Panic(m, "write to chr_rom")
              [] address \in VRAM_START..VRAM_END ->
                   IF idx < 0 THEN Panic(m, "nametable index")
                   ELSE [m EXCEPT !.ppu.vram = ArraySet(@, idx, value)]
              [] address \in 12288..16127 -> Panic(m, "unimplemented: unused PPU address")
              [] address \in PALETTE_START..PALETTE_END ->
                   IF address - PALETTE_START >= 32
                   THEN Panic(m, "index out of bounds: palette_table")
                   ELSE [m EXCEPT !.ppu.palette_table =
                                     ArraySet(@, address - PALETTE_START, value)]
              [] OTHER -> Panic(m, "mirrored PPU address")
    IN  IF Ok(stored)
        THEN Return([stored EXCEPT !.ppu = increment_address(@)], -1)
        ELSE stored

\* Mutant of oam_dma_from: the page would be copied to OAM from index 0,
\* whatever the cursor.
oam_dma_from_zero(p, data, i) ==
    [p EXCEPT !.oam = [j \in {k \in 0..255 : data[k] # 0} |-> data[j]]]

\* The iterations lo..hi-1 of the loop `for byte in data.iter()`, the range
\* halved at each level; the cursor is a u8 before each of them.
RECURSIVE oam_dma_range(_, _, _, _)
oam_dma_range(p, data, lo, hi) ==
    CASE hi <= lo \/ p.oam_address \notin 0..255 -> p
      [] hi = lo + 1 ->
           [p EXCEPT !.oam = ArraySet(@, p.oam_address, data[lo]),
                     !.oam_address = (@ + 1) % 256]
      [] OTHER ->
           oam_dma_range(oam_dma_range(p, data, lo, (lo + hi) \div 2), data,
                         (lo + hi) \div 2, hi)

oam_dma_from(p, data, i) == oam_dma_range(p, data, i, 256)

write_to_oam_dma(m, data) == Return([m EXCEPT !.ppu = oam_dma_from(@, data, 0)], -1)

\* Mutant of read_from_status: the VRAM-address toggle would survive the read.
read_from_status_keeps_latch(m) ==
    Return([m EXCEPT !.ppu.status = remove(@, VBLANK_STARTED),
                     !.ppu.scroll.x_scroll_active = TRUE], m.ppu.status)

read_from_status(m) ==
    Return([m EXCEPT !.ppu.status = remove(@, VBLANK_STARTED),
                     !.ppu.vram_address.high_byte_active = TRUE,
                     !.ppu.scroll.x_scroll_active = TRUE], m.ppu.status)

\* Mutant of read_from_oam_data: the read would advance the cursor.
read_from_oam_data_increments(m) ==
    Return([m EXCEPT !.ppu.oam_address = (@ + 1) % 256],
           ArrayGet(m.ppu.oam, m.ppu.oam_address))

read_from_oam_data(m) == Return(m, ArrayGet(m.ppu.oam, m.ppu.oam_address))

\* Mutant of read_from_data: a nametable read would return the addressed byte
\* at once instead of the buffered one.
read_from_data_unbuffered(m) ==
    LET address == get(m.ppu.vram_address)
        fresh == IF address <= CHR_ROM_END THEN chr_rom(m.ppu, address)
                 ELSE ArrayGet(m.ppu.vram, mirror_down_vram(m.ppu.mirroring, address))
    IN  IF address <= VRAM_END
        THEN Return([m EXCEPT !.ppu = increment_address(@), !.ppu.data_buffer = fresh],
                    fresh)
        ELSE Panic(m, "unimplemented: unused PPU address")

read_from_data(m) ==
    LET address == get(m.ppu.vram_address)
        m1 == [m EXCEPT !.ppu = increment_address(@)]
        idx == mirror_down_vram(m.ppu.mirroring, address)
    IN  CASE address <= CHR_ROM_END ->
               IF address >= m.ppu.chr_rom_len
               THEN Panic(m1, "index out of bounds: chr_rom")
               ELSE Return([m1 EXCEPT !.ppu.data_buffer = chr_rom(m.ppu, address)],
                           m.ppu.data_buffer)
          [] address \in VRAM_START..VRAM_END ->
               IF idx < 0 THEN Panic(m1, "nametable index")
               ELSE Return([m1 EXCEPT !.ppu.data_buffer = ArrayGet(m.ppu.vram, idx)],
                           m.ppu.data_buffer)
          [] address \in 12288..16127 -> Panic(m1, "unimplemented: unused PPU address")
          [] address \in PALETTE_START..PALETTE_END ->
               IF address - PALETTE_START >= 32
               THEN Panic(m1, "index out of bounds: palette_table")
               ELSE Return(m1, ArrayGet(m.ppu.palette_table, address - PALETTE_START))
          [] OTHER -> Panic(m1, "mirrored PPU address")

\* tick, lines 440-444: the cycle accumulator and the scanline counter
tick_scanline(p, cycles) ==
    LET c1 == p.cycles + cycles
    IN  IF c1 >= SCANLINE_CYCLES
        THEN [cycles |-> c1 - SCANLINE_CYCLES, scanline |-> p.scanline + 1]
        ELSE [cycles |-> c1, scanline |-> p.scanline]

\* Mutant of tick_vblank: the request is raised whatever the control register says.
tick_vblank_ignores_enable(p, scanline) ==
    IF scanline = VBLANK_SCANLINE
    THEN [status |-> insert(p.status, VBLANK_STARTED), nmi_interrupt |-> TRUE]
    ELSE [status |-> p.status, nmi_interrupt |-> p.nmi_interrupt]

\* tick, lines 446-451: VBlank-status and the interrupt request at line 241
tick_vblank(p, scanline) ==
    IF scanline = VBLANK_SCANLINE
    THEN [status |-> insert(p.status, VBLANK_STARTED),
          nmi_interrupt |-> IF contains(p.control, GENERATE_NMI) THEN TRUE
                            ELSE p.nmi_interrupt]
    ELSE [status |-> p.status, nmi_interrupt |-> p.nmi_interrupt]

\* Mutant of tick_frame_end: a pending request survives the frame boundary.
tick_frame_end_keeps_request(p) ==
    [p EXCEPT !.scanline = 0, !.status = remove(@, VBLANK_STARTED)]

\* tick, lines 453-458: the end of the frame
tick_frame_end(p) ==
    [p EXCEPT !.scanline = 0, !.nmi_interrupt = FALSE,
              !.status = remove(@, VBLANK_STARTED)]

ppu_tick(m, cycles) ==
    LET t == tick_scanline(m.ppu, cycles)
        v == tick_vblank(m.ppu, t.scanline)
        p1 == [m.ppu EXCEPT !.cycles = t.cycles, !.scanline = t.scanline,
                            !.status = v.status, !.nmi_interrupt = v.nmi_interrupt]
    IN  IF t.scanline >= FRAME_SCANLINES
        THEN Return([m EXCEPT !.ppu = tick_frame_end(p1)], 1)
        ELSE Return([m EXCEPT !.ppu = p1], 0)

(***************************************************************************)
(* bus.rs: Bus                                                             *)
(***************************************************************************)
\* u16 / u8 arithmetic: an overflow panics in a debug build and wraps in a
\* release build.  Overflowed(m, v, n) says that v left 0..n-1 and the build
\* checks for it.
Overflowed(m, v, n) == (v < 0 \/ v >= n) /\ m.build = "debug"

\* Mutant of ram_index: the work RAM would repeat every 4 KiB.
ram_index_4k(address) == address % 4096

\* address & CPU_RAM_MIRROR_DOWN_MASK (bus.rs:36, 97)
ram_index(address) == BitAnd(address, CPU_RAM_MIRROR_DOWN_MASK)

\* Mutant of rom_write: a write to the program ROM would be ignored.
rom_write_ignored(m, address) == Return(m, -1)

\* The arm of write_u8 for ROM_START..=ROM_END (bus.rs:115-117)
rom_write(m, address) == Panic(m, "Invalid attempt to write to ROM")

read_u8(m, address) ==
    LET mirrored_down == BitAnd(address, PPU_MIRROR_DOWN_MASK)
        rom_address == address - ROM_START
        single_page_program_rom ==
            m.rom.program_rom_len % 65536 = PROGRAM_ROM_PAGE_SIZE
        first_mirror_rom_address ==
            IF single_page_program_rom /\ rom_address >= PROGRAM_ROM_PAGE_SIZE
            THEN rom_address % PROGRAM_ROM_PAGE_SIZE
            ELSE rom_address
    IN  CASE ~Ok(m) -> m
          [] Ok(m) /\ address <= RAM_MIRRORS_END ->
               Return(m, ArrayGet(m.cpu_ram, ram_index(address)))
          [] Ok(m) /\ address \in PPU_REGISTERS_START..PPU_REGISTERS_MIRRORS_END ->
               CASE mirrored_down \in {8192, 8193, 8195, 8197, 8198, OAM_DMA_ADDRESS} ->
                      Panic(m, "read from write-only PPU address")
                 [] mirrored_down = 8194 -> read_from_status(m)
                 [] mirrored_down = 8196 -> read_from_oam_data(m)
                 [] mirrored_down = 8199 -> read_from_data(m)
                 [] OTHER -> Panic(m, "read from invalid address in PPU range")
          [] Ok(m) /\ address \in ROM_START..ROM_END ->
               IF first_mirror_rom_address >= m.rom.program_rom_len
               THEN Panic(m, "index out of bounds: program_rom")
               ELSE Return(m, program_rom(m.rom, first_mirror_rom_address))
          [] OTHER -> Panic(m, "Invalid attempt to read")

read_u16(m, address) ==
    LET from_le_bytes(low, m2) ==
            IF Ok(m2) THEN Return(m2, m2.ret * 256 + low) ELSE m2
        low_byte(m1) ==
            from_le_bytes(m1.ret,
                          IF Overflowed(m1, address + 1, 65536)
                          THEN Panic(m1, "attempt to add with overflow")
                          ELSE read_u8(m1, (address + 1) % 65536))
    IN  low_byte(read_u8(m, address))

\* Mutant of read_u16_wrap_page: the high byte would come from the next page.
read_u16_across_pages(m, address) == read_u16(m, address)

read_u16_wrap_page(m, address) ==
    LET page_start == (address \div CPU_PAGE_SIZE) * CPU_PAGE_SIZE
        from_le_bytes(low, m2) ==
            IF Ok(m2) THEN Return(m2, m2.ret * 256 + low) ELSE m2
        low_byte(m1) ==
            from_le_bytes(m1.ret,
                          IF Overflowed(m1, address + 1, 65536)
                          THEN Panic(m1, "attempt to add with overflow")
                          ELSE read_u8(m1, page_start
                                           + (((address + 1) % 65536) % CPU_PAGE_SIZE)))
    IN  low_byte(read_u8(m, address))

\* The page handed to the sprite DMA by the arm for 0x4014 (bus.rs:111).
dma_page(m, value) ==
    [i \in 0..255 |->
        ArrayGet(m.cpu_ram, BitAnd(value * 256 + i, CPU_RAM_MIRROR_DOWN_MASK))]

write_u8(m, address, value) ==
    LET mirrored_down == BitAnd(address, PPU_MIRROR_DOWN_MASK)
    IN  CASE ~Ok(m) -> m
          [] Ok(m) /\ address <= RAM_MIRRORS_END ->
               Return([m EXCEPT !.cpu_ram = ArraySet(@, ram_index(address), value)], -1)
          [] Ok(m) /\ address \in PPU_REGISTERS_START..PPU_REGISTERS_MIRRORS_END ->
               CASE mirrored_down = 8194 ->
                      Panic(m, "write to read-only PPU address")
                 [] mirrored_down = 8192 -> write_to_control(m, value)
                 [] mirrored_down = 8193 -> write_to_mask(m, value)
                 [] mirrored_down = 8195 -> write_to_oam_address(m, value)
                 [] mirrored_down = 8196 -> write_to_oam_data(m, value)
                 [] mirrored_down = 8197 -> write_to_scroll(m, value)
                 [] mirrored_down = 8198 -> write_to_vram_address(m, value)
                 [] mirrored_down = 8199 -> write_to_data(m, value)
                 [] mirrored_down = OAM_DMA_ADDRESS ->
                      write_to_oam_dma(m, dma_page(m, value))
                 [] OTHER -> Panic(m, "write to invalid address in PPU range")
          [] Ok(m) /\ address \in ROM_START..ROM_END -> rom_write(m, address)
          [] OTHER -> Panic(m, "Invalid attempt to write")

write_u16(m, address, value) ==
    LET high_byte(m1) ==
            IF Overflowed(m1, address + 1, 65536)
            THEN Panic(m1, "attempt to add with overflow")
            ELSE write_u8(m1, (address + 1) % 65536, value \div 256)
    IN  high_byte(write_u8(m, address, value % 256))

bus_tick(m, cpu_cycles) == ppu_tick(m, cpu_cycles * 3)

\* Mutant of poll_nmi_status: the poll would report the request and leave it up.
poll_nmi_status_keeps_request(m) == Return(m, IF m.ppu.nmi_interrupt THEN 1 ELSE 0)

poll_nmi_status(m) ==
    IF m.ppu.nmi_interrupt
    THEN Return([m EXCEPT !.ppu.nmi_interrupt = FALSE], 1)
    ELSE Return(m, 0)

(***************************************************************************)
(* cpu.rs: Cpu, the stack and the interrupts                               *)
(***************************************************************************)
STACK_PAGE_ADDRESS == 256
NMI_INTERRUPT_VECTOR_ADDRESS == 65530
RESET_INTERRUPT_VECTOR_ADDRESS == 65532
CPU_SP_START_VALUE == 253
CPU_FLAGS_START_VALUE == 36
NEGATIVE == 128
OVERFLOW == 64
BREAK == 32
BREAK_2 == 16
DECIMAL == 8
INTERRUPT_DISABLE == 4
ZERO == 2
CARRY == 1

Cpu_new ==
    [pc |-> ROM_START, sp |-> CPU_SP_START_VALUE, a |-> 0, x |-> 0, y |-> 0,
     flags |-> CPU_FLAGS_START_VALUE]

\* console.cpu.sp = v, where v was computed in u8 arithmetic
set_sp(m, v) ==
    CASE ~Ok(m) -> m
      [] Ok(m) /\ Overflowed(m, v, 256) -> Panic(m, "arithmetic overflow: sp")
      [] OTHER -> [m EXCEPT !.cpu.sp = v % 256]

\* console.cpu.pc = v, where v was computed in u16 arithmetic
set_pc(m, v) ==
    CASE ~Ok(m) -> m
      [] Ok(m) /\ Overflowed(m, v, 65536) -> Panic(m, "arithmetic overflow: pc")
      [] OTHER -> [m EXCEPT !.cpu.pc = v % 65536]

pull_stack_u8(m) ==
    LET incremented(m1) == read_u8(m1, STACK_PAGE_ADDRESS + m1.cpu.sp)
    IN  incremented(set_sp(m, m.cpu.sp + 1))

\* Mutant of pull_stack_u16: the word would be read one byte too high.
pull_stack_u16_high(m) ==
    LET incremented(m1) == read_u16(m1, STACK_PAGE_ADDRESS + m1.cpu.sp)
    IN  incremented(set_sp(m, m.cpu.sp + 2))

pull_stack_u16(m) ==
    LET incremented(m1) == read_u16(m1, STACK_PAGE_ADDRESS + m1.cpu.sp - 1)
    IN  incremented(set_sp(m, m.cpu.sp + 2))

push_stack_u8(m, value) ==
    set_sp(write_u8(m, STACK_PAGE_ADDRESS + m.cpu.sp, value), m.cpu.sp - 1)

\* Mutant of push_stack_u16: the word after the given one would be pushed.
push_stack_u16_next(m, value) ==
    set_sp(write_u16(m, BitOr(256, m.cpu.sp) - 1, (value + 1) % 65536), m.cpu.sp - 2)

push_stack_u16(m, value) ==
    set_sp(write_u16(m, BitOr(256, m.cpu.sp) - 1, value), m.cpu.sp - 2)

\* console.cpu.pc = the word a read_u16 left in ret
load_pc(m) == IF Ok(m) THEN Return([m EXCEPT !.cpu.pc = m.ret], -1) ELSE m

\* Mutant of reset_interrupt: X would survive the reset.
reset_interrupt_keeps_x(m) ==
    load_pc(read_u16([m EXCEPT !.cpu.a = 0, !.cpu.flags = CPU_FLAGS_START_VALUE],
                     RESET_INTERRUPT_VECTOR_ADDRESS))

reset_interrupt(m) ==
    load_pc(read_u16([m EXCEPT !.cpu.a = 0, !.cpu.x = 0,
                               !.cpu.flags = CPU_FLAGS_START_VALUE],
                     RESET_INTERRUPT_VECTOR_ADDRESS))

\* Mutant of nmi_interrupt: InterruptDisable would be set before the flags are
\* pushed.
nmi_interrupt_pushes_live_flags(m) ==
    LET pc_pushed(m1) ==
            push_stack_u8(m1, remove(insert(insert(m1.cpu.flags, INTERRUPT_DISABLE),
                                            BREAK), BREAK_2))
        flags_pushed(m2) ==
            IF Ok(m2)
            THEN ppu_tick([m2 EXCEPT !.cpu.flags = insert(@, INTERRUPT_DISABLE)], 2 * 3)
            ELSE m2
    IN  load_pc(read_u16(flags_pushed(pc_pushed(push_stack_u16(m, m.cpu.pc))),
                         NMI_INTERRUPT_VECTOR_ADDRESS))

nmi_interrupt(m) ==
    LET pc_pushed(m1) ==
            push_stack_u8(m1, remove(insert(m1.cpu.flags, BREAK), BREAK_2))
        flags_pushed(m2) ==
            IF Ok(m2)
            THEN ppu_tick([m2 EXCEPT !.cpu.flags = insert(@, INTERRUPT_DISABLE)], 2 * 3)
            ELSE m2
    IN  load_pc(read_u16(flags_pushed(pc_pushed(push_stack_u16(m, m.cpu.pc))),
                         NMI_INTERRUPT_VECTOR_ADDRESS))

(***************************************************************************)
(* instruction.rs: the Instruction Table                                   *)
(***************************************************************************)
Instruction_new(opcode, operation, addressing_mode, bytes, cycles) ==
    [opcode |-> opcode, operation |-> operation, addressing_mode |-> addressing_mode,
     bytes |-> bytes, cycles |-> cycles]

instructions ==
    {
      Instruction_new(10, "ASL", "None", 1, 2), Instruction_new(0, "BRK", "None", 1, 7),
      Instruction_new(24, "CLC", "None", 1, 2), Instruction_new(216, "CLD", "None", 1, 2),
      Instruction_new(88, "CLI", "None", 1, 2), Instruction_new(184, "CLV", "None", 1, 2),
      Instruction_new(202, "DEX", "None", 1, 2), Instruction_new(136, "DEY", "None", 1, 2),
      Instruction_new(232, "INX", "None", 1, 2), Instruction_new(200, "INY", "None", 1, 2),
      Instruction_new(74, "LSR", "None", 1, 2), Instruction_new(234, "NOP", "None", 1, 2),
      Instruction_new(72, "PHA", "None", 1, 3), Instruction_new(8, "PHP", "None", 1, 3),
      Instruction_new(104, "PLA", "None", 1, 4), Instruction_new(40, "PLP", "None", 1, 4),
      Instruction_new(42, "ROL", "None", 1, 2), Instruction_new(106, "ROR", "None", 1, 2),
      Instruction_new(64, "RTI", "None", 1, 6), Instruction_new(96, "RTS", "None", 1, 6),
      Instruction_new(56, "SEC", "None", 1, 2), Instruction_new(248, "SED", "None", 1, 2),
      Instruction_new(120, "SEI", "None", 1, 2), Instruction_new(170, "TAX", "None", 1, 2),
      Instruction_new(168, "TAY", "None", 1, 2), Instruction_new(186, "TSX", "None", 1, 2),
      Instruction_new(138, "TXA", "None", 1, 2), Instruction_new(154, "TXS", "None", 1, 2),
      Instruction_new(152, "TYA", "None", 1, 2), Instruction_new(105, "ADC", "Immediate", 2, 2),
      Instruction_new(101, "ADC", "ZeroPage", 2, 3), Instruction_new(117, "ADC", "ZeroPageX", 2, 4),
      Instruction_new(109, "ADC", "Absolute", 3, 4), Instruction_new(125, "ADC", "AbsoluteX", 3, 4),
      Instruction_new(121, "ADC", "AbsoluteY", 3, 4), Instruction_new(97, "ADC", "IndirectX", 2, 6),
      Instruction_new(113, "ADC", "IndirectY", 2, 5), Instruction_new(41, "AND", "Immediate", 2, 2),
      Instruction_new(37, "AND", "ZeroPage", 2, 3), Instruction_new(53, "AND", "ZeroPageX", 2, 4),
      Instruction_new(45, "AND", "Absolute", 3, 4), Instruction_new(61, "AND", "AbsoluteX", 3, 4),
      Instruction_new(57, "AND", "AbsoluteY", 3, 4), Instruction_new(33, "AND", "IndirectX", 2, 6),
      Instruction_new(49, "AND", "IndirectY", 2, 5), Instruction_new(6, "ASL", "ZeroPage", 2, 5),
      Instruction_new(22, "ASL", "ZeroPageX", 2, 6), Instruction_new(14, "ASL", "Absolute", 3, 6),
      Instruction_new(30, "ASL", "AbsoluteX", 3, 7), Instruction_new(144, "BCC", "Relative", 2, 2),
      Instruction_new(176, "BCS", "Relative", 2, 2), Instruction_new(240, "BEQ", "Relative", 2, 2),
      Instruction_new(36, "BIT", "ZeroPage", 2, 3), Instruction_new(44, "BIT", "Absolute", 3, 4),
      Instruction_new(48, "BMI", "Relative", 2, 2), Instruction_new(208, "BNE", "Relative", 2, 2),
      Instruction_new(16, "BPL", "Relative", 2, 2), Instruction_new(80, "BVC", "Relative", 2, 2),
      Instruction_new(112, "BVS", "Relative", 2, 2), Instruction_new(201, "CMP", "Immediate", 2, 2),
      Instruction_new(197, "CMP", "ZeroPage", 2, 3), Instruction_new(213, "CMP", "ZeroPageX", 2, 4),
      Instruction_new(205, "CMP", "Absolute", 3, 4), Instruction_new(221, "CMP", "AbsoluteX", 3, 4),
      Instruction_new(217, "CMP", "AbsoluteY", 3, 4), Instruction_new(193, "CMP", "IndirectX", 2, 6),
      Instruction_new(209, "CMP", "IndirectY", 2, 5), Instruction_new(224, "CPX", "Immediate", 2, 2),
      Instruction_new(228, "CPX", "ZeroPage", 2, 3), Instruction_new(236, "CPX", "Absolute", 3, 4),
      Instruction_new(192, "CPY", "Immediate", 2, 2), Instruction_new(196, "CPY", "ZeroPage", 2, 3),
      Instruction_new(204, "CPY", "Absolute", 3, 4), Instruction_new(198, "DEC", "ZeroPage", 2, 5),
      Instruction_new(214, "DEC", "ZeroPageX", 2, 6), Instruction_new(206, "DEC", "Absolute", 3, 6),
      Instruction_new(222, "DEC", "AbsoluteX", 3, 7), Instruction_new(73, "EOR", "Immediate", 2, 2),
      Instruction_new(69, "EOR", "ZeroPage", 2, 3), Instruction_new(85, "EOR", "ZeroPageX", 2, 4),
      Instruction_new(77, "EOR", "Absolute", 3, 4), Instruction_new(93, "EOR", "AbsoluteX", 3, 4),
      Instruction_new(89, "EOR", "AbsoluteY", 3, 4), Instruction_new(65, "EOR", "IndirectX", 2, 6),
      Instruction_new(81, "EOR", "IndirectY", 2, 5), Instruction_new(230, "INC", "ZeroPage", 2, 5),
      Instruction_new(246, "INC", "ZeroPageX", 2, 6), Instruction_new(238, "INC", "Absolute", 3, 6),
      Instruction_new(254, "INC", "AbsoluteX", 3, 7), Instruction_new(76, "JMP", "Absolute", 3, 3),
      Instruction_new(108, "JMP", "Indirect", 3, 5), Instruction_new(32, "JSR", "Absolute", 3, 6),
      Instruction_new(169, "LDA", "Immediate", 2, 2), Instruction_new(165, "LDA", "ZeroPage", 2, 3),
      Instruction_new(181, "LDA", "ZeroPageX", 2, 4), Instruction_new(173, "LDA", "Absolute", 3, 4),
      Instruction_new(189, "LDA", "AbsoluteX", 3, 4), Instruction_new(185, "LDA", "AbsoluteY", 3, 4),
      Instruction_new(161, "LDA", "IndirectX", 2, 6), Instruction_new(177, "LDA", "IndirectY", 2, 5),
      Instruction_new(162, "LDX", "Immediate", 2, 2), Instruction_new(166, "LDX", "ZeroPage", 2, 3),
      Instruction_new(182, "LDX", "ZeroPageY", 2, 4), Instruction_new(174, "LDX", "Absolute", 3, 4),
      Instruction_new(190, "LDX", "AbsoluteY", 3, 4), Instruction_new(160, "LDY", "Immediate", 2, 2),
      Instruction_new(164, "LDY", "ZeroPage", 2, 3), Instruction_new(180, "LDY", "ZeroPageX", 2, 4),
      Instruction_new(172, "LDY", "Absolute", 3, 4), Instruction_new(188, "LDY", "AbsoluteX", 3, 4),
      Instruction_new(70, "LSR", "ZeroPage", 2, 5), Instruction_new(86, "LSR", "ZeroPageX", 2, 6),
      Instruction_new(78, "LSR", "Absolute", 3, 6), Instruction_new(94, "LSR", "AbsoluteX", 3, 7),
      Instruction_new(9, "ORA", "Immediate", 2, 2), Instruction_new(5, "ORA", "ZeroPage", 2, 3),
      Instruction_new(21, "ORA", "ZeroPageX", 2, 4), Instruction_new(13, "ORA", "Absolute", 3, 4),
      Instruction_new(29, "ORA", "AbsoluteX", 3, 4), Instruction_new(25, "ORA", "AbsoluteY", 3, 4),
      Instruction_new(1, "ORA", "IndirectX", 2, 6), Instruction_new(17, "ORA", "IndirectY", 2, 5),
      Instruction_new(38, "ROL", "ZeroPage", 2, 5), Instruction_new(54, "ROL", "ZeroPageX", 2, 6),
      Instruction_new(46, "ROL", "Absolute", 3, 6), Instruction_new(62, "ROL", "AbsoluteX", 3, 7),
      Instruction_new(102, "ROR", "ZeroPage", 2, 5), Instruction_new(118, "ROR", "ZeroPageX", 2, 6),
      Instruction_new(110, "ROR", "Absolute", 3, 6), Instruction_new(126, "ROR", "AbsoluteX", 3, 7),
      Instruction_new(233, "SBC", "Immediate", 2, 2), Instruction_new(229, "SBC", "ZeroPage", 2, 3),
      Instruction_new(245, "SBC", "ZeroPageX", 2, 4), Instruction_new(237, "SBC", "Absolute", 3, 4),
      Instruction_new(253, "SBC", "AbsoluteX", 3, 4), Instruction_new(249, "SBC", "AbsoluteY", 3, 4),
      Instruction_new(225, "SBC", "IndirectX", 2, 6), Instruction_new(241, "SBC", "IndirectY", 2, 5),
      Instruction_new(133, "STA", "ZeroPage", 2, 3), Instruction_new(149, "STA", "ZeroPageX", 2, 4),
      Instruction_new(141, "STA", "Absolute", 3, 4), Instruction_new(157, "STA", "AbsoluteX", 3, 5),
      Instruction_new(153, "STA", "AbsoluteY", 3, 5), Instruction_new(129, "STA", "IndirectX", 2, 6),
      Instruction_new(145, "STA", "IndirectY", 2, 6), Instruction_new(134, "STX", "ZeroPage", 2, 3),
      Instruction_new(150, "STX", "ZeroPageY", 2, 4), Instruction_new(142, "STX", "Absolute", 3, 4),
      Instruction_new(132, "STY", "ZeroPage", 2, 3), Instruction_new(148, "STY", "ZeroPageX", 2, 4),
      Instruction_new(140, "STY", "Absolute", 3, 4)
    }

\* instructions.iter().find(|i| i.opcode == opcode).unwrap()
find_instruction(opcode) ==
    IF \E i \in instructions : i.opcode = opcode
    THEN [found |-> TRUE, instruction |-> CHOOSE i \in instructions : i.opcode = opcode]
    ELSE [found |-> FALSE, instruction |-> Instruction_new(opcode, "none", "None", 1, 0)]

(***************************************************************************)
(* cpu.rs: step                                                            *)
(***************************************************************************)
\* v as i8, v as i16
signed8(v) == IF v >= 128 THEN v - 256 ELSE v

signed16(v) == IF v >= 32768 THEN v - 65536 ELSE v

\* Flags::set(flag, on)
flags_set(m, flag, on) ==
    [m EXCEPT !.cpu.flags = IF on THEN insert(@, flag) ELSE remove(@, flag)]

\* Mutant of zero_negative: the Negative flag would be left alone.
zero_negative_zero_only(m, result) == flags_set(m, ZERO, result = 0)

\* zero = result == 0; negative = (result as i8) < 0; and the two flags.set
zero_negative(m, result) ==
    flags_set(flags_set(m, ZERO, result = 0), NEGATIVE, signed8(result) < 0)

\* Mutant of advance_pc: every operand would count as one byte.
advance_pc_one(m, n) ==
    LET m1 == set_pc(m, m.cpu.pc + 1)
    IN  IF Ok(m1) THEN Return(m1, m.ret) ELSE m1

\* console.cpu.pc += n after a read that left its byte or word in m.ret
advance_pc(m, n) ==
    LET m1 == set_pc(m, m.cpu.pc + n)
    IN  IF Ok(m1) THEN Return(m1, m.ret) ELSE m1

\* The operand address is left in ret.
read_address(m, mode) ==
    LET pc == m.cpu.pc
        indexed(r, i, n) == IF Ok(r) THEN Return(r, (r.ret + i) % n) ELSE r
        wrap_page(r) == read_u16_wrap_page(r, r.ret)
        byte == advance_pc(read_u8(m, pc), 1)
        word == advance_pc(read_u16(m, pc), 2)
    IN  CASE ~Ok(m) -> m
          [] Ok(m) /\ mode \in {"Immediate", "Relative"} -> advance_pc(Return(m, pc), 1)
          [] Ok(m) /\ mode = "ZeroPage" -> byte
          [] Ok(m) /\ mode = "ZeroPageX" -> indexed(byte, m.cpu.x, 256)
          [] Ok(m) /\ mode = "ZeroPageY" -> indexed(byte, m.cpu.y, 256)
          [] Ok(m) /\ mode = "Absolute" -> word
          [] Ok(m) /\ mode = "AbsoluteX" -> indexed(word, m.cpu.x, 65536)
          [] Ok(m) /\ mode = "AbsoluteY" -> indexed(word, m.cpu.y, 65536)
          [] Ok(m) /\ mode = "Indirect" -> wrap_page(word)
          [] Ok(m) /\ mode = "IndirectX" -> wrap_page(indexed(byte, m.cpu.x, 256))
          [] Ok(m) /\ mode = "IndirectY" -> indexed(wrap_page(byte), m.cpu.y, 65536)
          [] OTHER -> Panic(m, "explicit panic")

\* fn increment / fn decrement, on the register named reg
increment_register(m, reg) ==
    LET result == (m.cpu[reg] + 1) % 256
    IN  zero_negative([m EXCEPT !.cpu[reg] = result], result)

decrement_register(m, reg) ==
    LET result == (m.cpu[reg] - 1) % 256
    IN  zero_negative([m EXCEPT !.cpu[reg] = result], result)

\* Mutant of compare: Carry would need the register to be strictly greater.
compare_strict(m, lhs, rhs) ==
    flags_set(flags_set(flags_set(m, CARRY, lhs > rhs), ZERO, lhs = rhs),
              NEGATIVE, signed8((lhs - rhs) % 256) < 0)

compare(m, lhs, rhs) ==
    LET result == (lhs - rhs) % 256
        borrow == lhs < rhs
    IN  flags_set(flags_set(flags_set(m, CARRY, ~borrow), ZERO, lhs = rhs),
                  NEGATIVE, signed8(result) < 0)

\* cpu.pc = (cpu.pc as i16 + offset as i16) as u16
branch(m, condition, offset) ==
    LET sum == signed16(m.cpu.pc) + offset
    IN  CASE ~condition -> m
          [] condition /\ Overflowed(m, sum + 32768, 65536) ->
               Panic(m, "attempt to add with overflow")
          [] OTHER -> [m EXCEPT !.cpu.pc = sum % 65536]

load(m, value, reg) == zero_negative([m EXCEPT !.cpu[reg] = value], value)

\* Mutant of shifted: the rotates would shift in 0.
shifted_without_carry(operation, value, carry_in) ==
    IF operation \in {"ASL", "ROL"}
    THEN [result |-> (value * 2) % 256, carry |-> value >= 128]
    ELSE [result |-> value \div 2, carry |-> value % 2 = 1]

\* The result and the carry-out of ASL, LSR, ROL and ROR on value
shifted(operation, value, carry_in) ==
    CASE operation = "ASL" -> [result |-> (value * 2) % 256, carry |-> value >= 128]
      [] operation = "LSR" -> [result |-> value \div 2, carry |-> value % 2 = 1]
      [] operation = "ROL" ->
           [result |-> BitOr((value * 2) % 256, IF carry_in THEN 1 ELSE 0),
            carry |-> value >= 128]
      [] operation = "ROR" ->
           [result |-> BitOr(value \div 2, IF carry_in THEN 128 ELSE 0),
            carry |-> value % 2 = 1]

\* The flags.set calls that end ASL, LSR, ROL and ROR
shift_flags(m, s) == zero_negative(flags_set(m, CARRY, s.carry), s.result)

\* match instruction.operation of AddressingMode::None (cpu.rs:277-465)
execute_implied(m, operation) ==
    LET accumulator(s) == shift_flags([m EXCEPT !.cpu.a = s.result], s)
        vector_read(m3) ==
            IF Ok(m3) THEN flags_set([m3 EXCEPT !.cpu.pc = m3.ret], BREAK, TRUE) ELSE m3
        pulled_a(m1) ==
            IF Ok(m1) THEN zero_negative([m1 EXCEPT !.cpu.a = m1.ret], m1.ret) ELSE m1
        pulled_flags(m1) ==
            IF Ok(m1)
            THEN [m1 EXCEPT !.cpu.flags = remove(insert(m1.ret, BREAK), BREAK_2)]
            ELSE m1
        pulled_pc(m1) ==
            IF Ok(m1) THEN set_pc([m1 EXCEPT !.cpu.pc = m1.ret], m1.ret + 1) ELSE m1
    IN  CASE ~Ok(m) -> m
          [] Ok(m) /\ operation \in {"ASL", "LSR", "ROL", "ROR"} ->
               accumulator(shifted(operation, m.cpu.a, contains(m.cpu.flags, CARRY)))
          [] Ok(m) /\ operation = "BRK" ->
               vector_read(read_u16(push_stack_u8(push_stack_u16(m, m.cpu.pc),
                                                  m.cpu.flags), 65534))
          [] Ok(m) /\ operation = "CLC" -> flags_set(m, CARRY, FALSE)
          [] Ok(m) /\ operation = "CLD" -> flags_set(m, DECIMAL, FALSE)
          [] Ok(m) /\ operation = "CLI" -> flags_set(m, INTERRUPT_DISABLE, FALSE)
          [] Ok(m) /\ operation = "CLV" -> flags_set(m, OVERFLOW, FALSE)
          [] Ok(m) /\ operation = "DEX" -> decrement_register(m, "x")
          [] Ok(m) /\ operation = "DEY" -> decrement_register(m, "y")
          [] Ok(m) /\ operation = "INX" -> increment_register(m, "x")
          [] Ok(m) /\ operation = "INY" -> increment_register(m, "y")
          [] Ok(m) /\ operation = "NOP" -> m
          [] Ok(m) /\ operation = "PHA" -> push_stack_u8(m, m.cpu.a)
          [] Ok(m) /\ operation = "PHP" ->
               push_stack_u8(m, insert(insert(m.cpu.flags, BREAK), BREAK_2))
          [] Ok(m) /\ operation = "PLA" -> pulled_a(pull_stack_u8(m))
          [] Ok(m) /\ operation = "PLP" -> pulled_flags(pull_stack_u8(m))
          [] Ok(m) /\ operation = "RTI" ->
               load_pc(pull_stack_u16(pulled_flags(pull_stack_u8(m))))
          [] Ok(m) /\ operation = "RTS" -> pulled_pc(pull_stack_u16(m))
          [] Ok(m) /\ operation = "SEC" -> flags_set(m, CARRY, TRUE)
          [] Ok(m) /\ operation = "SED" -> flags_set(m, DECIMAL, TRUE)
          [] Ok(m) /\ operation = "SEI" -> flags_set(m, INTERRUPT_DISABLE, TRUE)
          [] Ok(m) /\ operation = "TAX" -> load(m, m.cpu.a, "x")
          [] Ok(m) /\ operation = "TAY" -> load(m, m.cpu.a, "y")
          [] Ok(m) /\ operation = "TSX" -> load(m, m.cpu.sp, "x")
          [] Ok(m) /\ operation = "TXA" -> load(m, m.cpu.x, "a")
          [] Ok(m) /\ operation = "TXS" -> [m EXCEPT !.cpu.sp = m.cpu.x]
          [] Ok(m) /\ operation = "TYA" -> load(m, m.cpu.y, "a")
          [] OTHER -> Panic(m, "not yet implemented")

\* Mutant of bit_test: Overflow and Negative would come from A AND value.
bit_test_of_result(m, acc, value) ==
    flags_set(flags_set(flags_set(m, ZERO, BitAnd(acc, value) = 0),
                        OVERFLOW, contains(BitAnd(acc, value), 64)),
              NEGATIVE, contains(BitAnd(acc, value), 128))

\* The arm of BIT (cpu.rs:529-540)
bit_test(m, acc, value) ==
    flags_set(flags_set(flags_set(m, ZERO, BitAnd(acc, value) = 0),
                        OVERFLOW, contains(value, 64)),
              NEGATIVE, contains(value, 128))

\* Mutant of borrowing_sub_overflow: an overflow of either subtraction would be
\* reported.
borrowing_sub_overflow_either(lhs, rhs, borrow) ==
    \/ lhs - rhs \notin -128..127
    \/ signed8((lhs - rhs) % 256) - borrow \notin -128..127

\* The overflow flag of i8::borrowing_sub(lhs, rhs, borrow): the two
\* overflowing_sub calls of the library overflow an odd number of times.
borrowing_sub_overflow(lhs, rhs, borrow) ==
    (lhs - rhs \notin -128..127)
        # (signed8((lhs - rhs) % 256) - borrow \notin -128..127)

\* match instruction.operation of the other addressing modes (cpu.rs:471-745)
execute_addressed(m, operation, address) ==
    LET acc == m.cpu.a
        carry == contains(m.cpu.flags, CARRY)
        carry_in == IF carry THEN 1 ELSE 0
        condition ==
            CASE operation = "BCC" -> ~contains(m.cpu.flags, CARRY)
              [] operation = "BCS" -> contains(m.cpu.flags, CARRY)
              [] operation = "BEQ" -> contains(m.cpu.flags, ZERO)
              [] operation = "BNE" -> ~contains(m.cpu.flags, ZERO)
              [] operation = "BMI" -> contains(m.cpu.flags, NEGATIVE)
              [] operation = "BPL" -> ~contains(m.cpu.flags, NEGATIVE)
              [] operation = "BVC" -> ~contains(m.cpu.flags, OVERFLOW)
              [] operation = "BVS" -> contains(m.cpu.flags, OVERFLOW)
        arithmetic(m1, result, carry_out, overflow) ==
            flags_set(zero_negative(flags_set([m1 EXCEPT !.cpu.a = result % 256],
                                              CARRY, carry_out),
                                    result % 256),
                      OVERFLOW, overflow)
        written_back(m2, result) == IF Ok(m2) THEN zero_negative(m2, result) ELSE m2
        shifted_back(m2, s) == IF Ok(m2) THEN shift_flags(m2, s) ELSE m2
        shift_memory(m1, s) == shifted_back(write_u8(m1, address, s.result), s)
        with_value(m1, value) ==
            CASE ~Ok(m1) -> m1
              [] Ok(m1) /\ operation = "ADC" ->
                   arithmetic(m1, acc + value + carry_in, acc + value + carry_in > 255,
                              signed8(acc) + signed8(value) \notin -128..127)
              [] Ok(m1) /\ operation = "SBC" ->
                   arithmetic(m1, acc - value - (1 - carry_in),
                              ~(acc - value - (1 - carry_in) < 0),
                              borrowing_sub_overflow(signed8(acc), signed8(value),
                                                     1 - carry_in))
              [] Ok(m1) /\ operation = "AND" -> load(m1, BitAnd(acc, value), "a")
              [] Ok(m1) /\ operation = "ORA" -> load(m1, BitOr(acc, value), "a")
              [] Ok(m1) /\ operation = "EOR" ->
                   load(m1, BitOr(acc, value) - BitAnd(acc, value), "a")
              [] Ok(m1) /\ operation \in {"ASL", "LSR", "ROL", "ROR"} ->
                   shift_memory(m1, shifted(operation, value, carry))
              [] Ok(m1) /\ operation \in {"BCC", "BCS", "BEQ", "BNE",
                                          "BMI", "BPL", "BVC", "BVS"} ->
                   branch(m1, condition, signed8(value))
              [] Ok(m1) /\ operation = "BIT" -> bit_test(m1, acc, value)
              [] Ok(m1) /\ operation = "CMP" -> compare(m1, m.cpu.a, value)
              [] Ok(m1) /\ operation = "CPX" -> compare(m1, m.cpu.x, value)
              [] Ok(m1) /\ operation = "CPY" -> compare(m1, m.cpu.y, value)
              [] Ok(m1) /\ operation = "DEC" ->
                   written_back(write_u8(m1, address, (value - 1) % 256),
                                (value - 1) % 256)
              [] Ok(m1) /\ operation = "INC" ->
                   written_back(write_u8(m1, address, (value + 1) % 256),
                                (value + 1) % 256)
              [] Ok(m1) /\ operation = "LDA" -> load(m1, value, "a")
              [] Ok(m1) /\ operation = "LDX" -> load(m1, value, "x")
              [] Ok(m1) /\ operation = "LDY" -> load(m1, value, "y")
              [] OTHER -> Panic(m1, "not yet implemented")
        memory_value(m1) == with_value(m1, m1.ret)
        return_pushed(m1) == IF Ok(m1) THEN [m1 EXCEPT !.cpu.pc = address] ELSE m1
    IN  CASE ~Ok(m) -> m
          [] Ok(m) /\ operation = "JMP" -> [m EXCEPT !.cpu.pc = address]
          [] Ok(m) /\ operation = "JSR" ->
               IF Overflowed(m, m.cpu.pc - 1, 65536)
               THEN Panic(m, "attempt to subtract with overflow")
               ELSE return_pushed(push_stack_u16(m, (m.cpu.pc - 1) % 65536))
          [] Ok(m) /\ operation = "STA" -> write_u8(m, address, m.cpu.a)
          [] Ok(m) /\ operation = "STX" -> write_u8(m, address, m.cpu.x)
          [] Ok(m) /\ operation = "STY" -> write_u8(m, address, m.cpu.y)
          [] Ok(m) /\ operation \in {"ADC", "SBC", "AND", "ORA", "EOR", "ASL", "LSR",
                                     "ROL", "ROR", "BCC", "BCS", "BEQ", "BNE", "BMI",
                                     "BPL", "BVC", "BVS", "BIT", "CMP", "CPX", "CPY",
                                     "DEC", "INC", "LDA", "LDX", "LDY"} ->
               memory_value(read_u8(m, address))
          [] OTHER -> Panic(m, "not yet implemented")

\* step(console, instruction): the caller has read the opcode at pc and
\* looked the instruction up.  The unit result is -1.
step(m, instruction) ==
    LET executed(m3) == IF Ok(m3) THEN Return(m3, -1) ELSE m3
        address_read(m2) == execute_addressed(m2, instruction.operation, m2.ret)
        opcode_counted(m1) ==
            IF instruction.addressing_mode = "None"
            THEN execute_implied(m1, instruction.operation)
            ELSE address_read(read_address(m1, instruction.addressing_mode))
    IN  executed(opcode_counted(set_pc(m, m.cpu.pc + 1)))

(***************************************************************************)
(* The state of the model and the operations on it                         *)
(***************************************************************************)
Machine ==
    [cpu |-> cpu, cpu_ram |-> cpu_ram, ppu |-> ppu, rom |-> rom, build |-> build,
     panic |-> panic, ret |-> ret]

\* What the history records of the operation `name` that took the machine to m2.
\* `counting` says which counter the specification keeps: "ops" (operations
\* done), "polls" (polls that returned true since the last frame), "before"
\* (what the last operation found in the stack pointer and the two write
\* toggles), "trace" (that, the operations done and the operation before the
\* last), or "none".
History(m2, name, address, value, counting) ==
    LET was == ppu.nmi_interrupt
        now == m2.ppu.nmi_interrupt
        raised == ~was /\ now
        frame_done == name \in {"tick", "run_tick"} /\ m2.ret = 1
    IN  [ nmi_enabled_ever |->
              hist.nmi_enabled_ever \/ contains(m2.ppu.control, GENERATE_NMI),
          tick_request |->
              CASE name = "run_tick" -> now
                [] name = "nmi_interrupt" -> FALSE
                [] OTHER -> hist.tick_request,
          credit |->
              CASE name = "nmi_interrupt" -> raised
                [] name \in {"poll", "run_poll"} -> hist.credit
                [] OTHER -> IF raised THEN TRUE
                            ELSE IF was /\ ~now THEN FALSE ELSE hist.credit,
          polls_true |->
              CASE frame_done -> 0
                [] counting = "polls" /\ name = "poll" /\ m2.ret = 1 ->
                     hist.polls_true + 1
                [] OTHER -> hist.polls_true,
          ops |-> IF counting \in {"ops", "trace"} THEN hist.ops + 1 ELSE hist.ops,
          before |->
              IF counting \in {"before", "trace"}
              THEN [sp |-> cpu.sp,
                    high_byte_active |-> ppu.vram_address.high_byte_active,
                    x_scroll_active |-> ppu.scroll.x_scroll_active]
              ELSE hist.before,
          prev |-> IF counting = "trace" THEN [op |-> op, before |-> hist.before]
                   ELSE hist.prev,
          \* the last write8 to each 2 KiB-congruence class of work RAM
          ram |->
              IF counting = "ops" /\ name = "write_u8" /\ address <= RAM_MIRRORS_END
              THEN (address % 2048 :> [address |-> address, value |-> value,
                                       at |-> hist.ops + 1]) @@ hist.ram
              ELSE hist.ram ]

Commit(m2, name, address, value, counting) ==
    /\ cpu' = m2.cpu
    /\ cpu_ram' = m2.cpu_ram
    /\ ppu' = m2.ppu
    /\ rom' = m2.rom
    /\ build' = m2.build
    /\ panic' = m2.panic
    /\ ret' = m2.ret
    /\ op' = [name |-> name, address |-> address, value |-> value]
    /\ hist' = History(m2, name, address, value, counting)

\* The console with the work RAM holding `ram`.
InitLoaded(image, program_rom_len, mirroring, bld, registers, ram) ==
    /\ rom = [image |-> image, program_rom_len |-> program_rom_len,
              chr_rom_len |-> 8192, mirroring |-> mirroring]
    /\ cpu = registers
    /\ cpu_ram = ram
    /\ ppu = Ppu_new(rom)
    /\ build = bld
    /\ panic = "none"
    /\ op = [name |-> "new", address |-> 0, value |-> 0]
    /\ ret = -1
    /\ hist = [nmi_enabled_ever |-> FALSE, tick_request |-> FALSE, credit |-> FALSE,
               polls_true |-> 0, ops |-> 0, ram |-> <<>>,
               before |-> [sp |-> registers.sp, high_byte_active |-> TRUE,
                           x_scroll_active |-> TRUE],
               prev |-> [op |-> [name |-> "new", address |-> 0, value |-> 0],
                         before |-> [sp |-> registers.sp, high_byte_active |-> TRUE,
                                     x_scroll_active |-> TRUE]]]

InitConsole(image, program_rom_len, mirroring, bld, registers) ==
    InitLoaded(image, program_rom_len, mirroring, bld, registers, ZeroArray)

InitMachine(image, program_rom_len, mirroring, bld) ==
    InitConsole(image, program_rom_len, mirroring, bld, Cpu_new)

Tick(cycles, counting) ==
    /\ panic = "none"
    /\ Commit(ppu_tick(Machine, cycles), "tick", 0, cycles, counting)

Poll(counting) ==
    /\ panic = "none"
    /\ Commit(poll_nmi_status(Machine), "poll", 0, 0, counting)

BusRead(address, counting) ==
    /\ panic = "none"
    /\ Commit(read_u8(Machine, address), "read_u8", address, 0, counting)

BusWrite(address, value, counting) ==
    /\ panic = "none"
    /\ Commit(write_u8(Machine, address, value), "write_u8", address, value, counting)

\* The opcode at pc is read and looked up (instruction.rs:245, 374-377), and
\* the instruction found is handed to step.
fetch_and_step(m) ==
    LET looked_up(m1, found) ==
            CASE ~Ok(m1) -> m1
              [] Ok(m1) /\ ~found.found ->
                   Panic(m1, "called Option::unwrap() on a None value")
              [] OTHER -> step(m1, found.instruction)
        opcode_read(m1) == looked_up(m1, find_instruction(m1.ret))
    IN  opcode_read(read_u8(m, m.cpu.pc))

NmiInterrupt(counting) ==
    /\ panic = "none"
    /\ Commit(nmi_interrupt(Machine), "nmi_interrupt", 0, 0, counting)

(***************************************************************************)
(* SpecPpu: the graphics chip's timing, driven by ticks, polls, control    *)
(* writes and status reads in any order.                                   *)
(***************************************************************************)
TickAmounts == {93, SCANLINE_CYCLES}

ControlValues == {0, GENERATE_NMI}

InitPpu ==
    /\ InitMachine(0, PROGRAM_ROM_PAGE_SIZE, "Horizontal", "release")
    /\ loop = [phase |-> "idle", frames |-> 0, cycles |-> 0]

PpuTick == \E c \in TickAmounts : Tick(c, "none") /\ UNCHANGED loop

PpuPoll == Poll("none") /\ UNCHANGED loop

PpuWriteControl ==
    \E a \in {8192, 16376}, v \in ControlValues : BusWrite(a, v, "none") /\ UNCHANGED loop

PpuReadStatus == BusRead(8194, "none") /\ UNCHANGED loop

NextPpu == PpuTick \/ PpuPoll \/ PpuWriteControl \/ PpuReadStatus

SpecPpu == InitPpu /\ [][NextPpu]_vars

(***************************************************************************)
(* SpecFrame: NMI-enable is set once, then the chip is ticked and the      *)
(* request flag is polled (and so cleared) after every tick.               *)
(***************************************************************************)
InitFrame ==
    /\ InitMachine(0, PROGRAM_ROM_PAGE_SIZE, "Horizontal", "release")
    /\ loop = [phase |-> "setup", frames |-> 0, cycles |-> 0]

FrameSetup ==
    /\ loop.phase = "setup"
    /\ BusWrite(8192, GENERATE_NMI, "polls")
    /\ loop' = [loop EXCEPT !.phase = "tick"]

FrameTick ==
    /\ loop.phase = "tick"
    /\ \E c \in TickAmounts : Tick(c, "polls")
    /\ loop' = [loop EXCEPT !.phase = "poll"]

FramePoll ==
    /\ loop.phase = "poll"
    /\ Poll("polls")
    /\ loop' = [loop EXCEPT !.phase = "tick"]

NextFrame == FrameSetup \/ FrameTick \/ FramePoll

SpecFrame == InitFrame /\ [][NextFrame]_vars

(***************************************************************************)
(* SpecBus: a bounded number of read8 / write8 calls on the bus, with a    *)
(* 16 KiB or a 32 KiB program ROM.                                         *)
(***************************************************************************)
MaxOps == 3

\* work RAM and its mirrors, PPU ports (control, status, OAM address, OAM
\* data, VRAM address, and the status, mask and scroll ports at their last
\* mirrors 0x3FFA, 0x3FF9 and 0x3FFD), the sprite-DMA register, the unmapped
\* middle, and the two halves of the cartridge region
BusAddresses ==
    {0, 2048, 6145, 2047, 8191}
        \cup {8192, 8194, 8195, 8196, 8198, 16377, 16378, 16381}
        \cup {OAM_DMA_ADDRESS}
        \cup {16384, 32767} \cup {32768, 49151, 49152, 65535}

BusValues == {0, 102}

InitBus ==
    /\ \E len \in {PROGRAM_ROM_PAGE_SIZE, 2 * PROGRAM_ROM_PAGE_SIZE} :
           InitMachine(0, len, "Horizontal", "release")
    /\ loop = [phase |-> "idle", frames |-> 0, cycles |-> 0]

BusReadStep ==
    /\ hist.ops < MaxOps
    /\ \E a \in BusAddresses : BusRead(a, "ops")
    /\ UNCHANGED loop

BusWriteStep ==
    /\ hist.ops < MaxOps
    /\ \E a \in BusAddresses, v \in BusValues : BusWrite(a, v, "ops")
    /\ UNCHANGED loop

NextBus == BusReadStep \/ BusWriteStep

SpecBus == InitBus /\ [][NextBus]_vars

(***************************************************************************)
(* SpecNmi: NMI-service entered from any program counter, stack pointer    *)
(* and flag byte a program can have set up, in a debug or a release build, *)
(* and the first instruction of the handler, an RTI at 0xC010.  The        *)
(* operation records the program counter and the flags the service found.  *)
(***************************************************************************)
MaxNmi == 2

InitNmi ==
    /\ \E bld \in {"debug", "release"}, pc \in {ROM_START, 51966},
          sp \in {CPU_SP_START_VALUE, 255, 3, 2, 1, 0},
          f \in {CPU_FLAGS_START_VALUE, BREAK_2 + CARRY,
                 NEGATIVE + OVERFLOW + BREAK + BREAK_2 + ZERO,
                 NEGATIVE + BREAK + CARRY} :
           InitConsole(1, PROGRAM_ROM_PAGE_SIZE, "Horizontal", bld,
                       [pc |-> pc, sp |-> sp, a |-> 17, x |-> 34, y |-> 51, flags |-> f])
    /\ loop = [phase |-> "idle", frames |-> 0, cycles |-> 0]

NmiService ==
    /\ hist.ops < MaxNmi /\ panic = "none"
    /\ Commit(nmi_interrupt(Machine), "nmi_interrupt", cpu.pc, cpu.flags, "trace")
    /\ UNCHANGED loop

NmiReturn ==
    /\ hist.ops < MaxNmi /\ panic = "none"
    /\ op.name = "nmi_interrupt"
    /\ Commit(fetch_and_step(Machine), "step", cpu.pc, read_u8(Machine, cpu.pc).ret,
              "trace")
    /\ UNCHANGED loop

NextNmi == NmiService \/ NmiReturn

SpecNmi == InitNmi /\ [][NextNmi]_vars

(***************************************************************************)
(* SpecRun: the canonical per-instruction sequence of the run loop: poll   *)
(* the interrupt request, service it if it was up, execute one step, tick  *)
(* the PPU 3 times per CPU cycle of the instruction.                       *)
(***************************************************************************)
MaxFrames == 1

InitRun ==
    /\ \E image \in {1, 2}, bld \in {"debug", "release"} :
           InitMachine(image, PROGRAM_ROM_PAGE_SIZE, "Horizontal", bld)
    /\ loop = [phase |-> "poll", frames |-> 0, cycles |-> 0]

RunPoll ==
    /\ loop.phase = "poll" /\ loop.frames < MaxFrames
    /\ panic = "none"
    /\ Commit(poll_nmi_status(Machine), "run_poll", 0, 0, "none")
    /\ loop' = [loop EXCEPT !.phase = IF ret' = 1 THEN "nmi" ELSE "step"]

RunNmi ==
    /\ loop.phase = "nmi"
    /\ NmiInterrupt("none")
    /\ loop' = [loop EXCEPT !.phase = "step"]

RunStep ==
    /\ loop.phase = "step"
    /\ panic = "none"
    /\ LET stepped(opcode, instruction) ==
               /\ Commit(fetch_and_step(Machine), "step", cpu.pc, opcode, "none")
               /\ loop' = [loop EXCEPT !.phase = "tick", !.cycles = instruction.cycles]
           fetched(opcode) == stepped(opcode, find_instruction(opcode).instruction)
       IN  fetched(read_u8(Machine, cpu.pc).ret)

RunTick ==
    /\ loop.phase = "tick"
    /\ panic = "none"
    /\ Commit(bus_tick(Machine, loop.cycles), "run_tick", 0, loop.cycles * 3, "none")
    /\ loop' = [loop EXCEPT !.phase = "poll",
                            !.frames = IF ret' = 1 THEN @ + 1 ELSE @]

NextRun == RunPoll \/ RunNmi \/ RunStep \/ RunTick

SpecRun == InitRun /\ [][NextRun]_vars

(***************************************************************************)
(* SpecLatch: the two write toggles.  The chip is ticked a scanline at a   *)
(* time while the scroll and the VRAM-address ports are written and the    *)
(* status port is read, in any order.                                      *)
(***************************************************************************)
LatchValues == {99}

InitLatch ==
    /\ InitMachine(0, PROGRAM_ROM_PAGE_SIZE, "Horizontal", "release")
    /\ loop = [phase |-> "idle", frames |-> 0, cycles |-> 0]

LatchTick == Tick(SCANLINE_CYCLES, "before") /\ UNCHANGED loop

LatchWriteScroll == \E v \in LatchValues : BusWrite(8197, v, "before") /\ UNCHANGED loop

LatchWriteAddress == \E v \in LatchValues : BusWrite(8198, v, "before") /\ UNCHANGED loop

LatchReadStatus == \E a \in {8194, 16378} : BusRead(a, "before") /\ UNCHANGED loop

NextLatch == LatchTick \/ LatchWriteScroll \/ LatchWriteAddress \/ LatchReadStatus

SpecLatch == InitLatch /\ [][NextLatch]_vars

(***************************************************************************)
(* SpecVram: a bounded number of accesses to the VRAM-address, data,       *)
(* status and control ports, under Horizontal or Vertical mirroring (the   *)
(* two modes rom.rs:56-62 can produce).                                    *)
(***************************************************************************)
MaxVramOps == 7

\* high bytes of the pattern tables (0x05), nametable 0 (0x63 -> 0x23),
\* nametable 2 (0x2B), the range above the nametables (0x30) and the
\* palette range (0xFF -> 0x3F); each is also written as a low byte
AddressValues == {5, 43, 48, 99, 255}

DataValues == {102}

InitVram ==
    /\ \E mirroring \in {"Horizontal", "Vertical"} :
           InitMachine(0, PROGRAM_ROM_PAGE_SIZE, mirroring, "release")
    /\ loop = [phase |-> "idle", frames |-> 0, cycles |-> 0]

VramWriteAddress ==
    /\ hist.ops < MaxVramOps
    /\ \E v \in AddressValues : BusWrite(8198, v, "trace")
    /\ UNCHANGED loop

VramWriteData ==
    /\ hist.ops < MaxVramOps
    /\ \E v \in DataValues : BusWrite(8199, v, "trace")
    /\ UNCHANGED loop

VramReadData ==
    /\ hist.ops < MaxVramOps
    /\ BusRead(8199, "trace")
    /\ UNCHANGED loop

VramReadStatus ==
    /\ hist.ops < MaxVramOps
    /\ BusRead(8194, "trace")
    /\ UNCHANGED loop

VramWriteControl ==
    /\ hist.ops < MaxVramOps
    /\ BusWrite(8192, VRAM_ADDRESS_INCREMENT, "trace")
    /\ UNCHANGED loop

NextVram ==
    VramWriteAddress \/ VramWriteData \/ VramReadData \/ VramReadStatus
        \/ VramWriteControl

SpecVram == InitVram /\ [][NextVram]_vars

(***************************************************************************)
(* SpecOam: a bounded number of accesses to the OAM-address and OAM-data   *)
(* ports and of sprite DMAs handed to the chip (Ppu::write_to_oam_dma).    *)
(***************************************************************************)
MaxOamOps == 5

OamCursors == {5, 255}

OamValues == {102, 7}

\* The 256-byte pages handed to the sprite DMA
DmaPage(k) == [i \in 0..255 |-> (k * i + k) % 256]

InitOam ==
    /\ InitMachine(0, PROGRAM_ROM_PAGE_SIZE, "Horizontal", "release")
    /\ loop = [phase |-> "idle", frames |-> 0, cycles |-> 0]

OamWriteAddress ==
    /\ hist.ops < MaxOamOps
    /\ \E v \in OamCursors : BusWrite(8195, v, "trace")
    /\ UNCHANGED loop

OamWriteData ==
    /\ hist.ops < MaxOamOps
    /\ \E v \in OamValues : BusWrite(8196, v, "trace")
    /\ UNCHANGED loop

OamReadData ==
    /\ hist.ops < MaxOamOps
    /\ BusRead(8196, "trace")
    /\ UNCHANGED loop

OamDma ==
    /\ hist.ops < MaxOamOps
    /\ panic = "none"
    /\ \E k \in {1, 3} :
           Commit(write_to_oam_dma(Machine, DmaPage(k)), "write_to_oam_dma", 0, k,
                  "trace")
    /\ UNCHANGED loop

NextOam == OamWriteAddress \/ OamWriteData \/ OamReadData \/ OamDma

SpecOam == InitOam /\ [][NextOam]_vars

(***************************************************************************)
(* SpecStack: a bounded number of pushes and pulls, 8-bit and 16-bit, from *)
(* stack pointers in the middle and at both ends of the stack page, in a   *)
(* debug or a release build.                                               *)
(***************************************************************************)
MaxStackOps == 3

InitStack ==
    /\ \E bld \in {"debug", "release"}, sp \in {CPU_SP_START_VALUE, 255, 254, 2, 1, 0} :
           InitConsole(0, PROGRAM_ROM_PAGE_SIZE, "Horizontal", bld,
                       [Cpu_new EXCEPT !.sp = sp])
    /\ loop = [phase |-> "idle", frames |-> 0, cycles |-> 0]

StackPush8 ==
    /\ hist.ops < MaxStackOps /\ panic = "none"
    /\ \E v \in {171, 0} :
           Commit(push_stack_u8(Machine, v), "push_stack_u8", 0, v, "trace")
    /\ UNCHANGED loop

StackPull8 ==
    /\ hist.ops < MaxStackOps /\ panic = "none"
    /\ Commit(pull_stack_u8(Machine), "pull_stack_u8", 0, 0, "trace")
    /\ UNCHANGED loop

StackPush16 ==
    /\ hist.ops < MaxStackOps /\ panic = "none"
    /\ \E v \in {51966, 255} :
           Commit(push_stack_u16(Machine, v), "push_stack_u16", 0, v, "trace")
    /\ UNCHANGED loop

StackPull16 ==
    /\ hist.ops < MaxStackOps /\ panic = "none"
    /\ Commit(pull_stack_u16(Machine), "pull_stack_u16", 0, 0, "trace")
    /\ UNCHANGED loop

NextStack == StackPush8 \/ StackPull8 \/ StackPush16 \/ StackPull16

SpecStack == InitStack /\ [][NextStack]_vars

(***************************************************************************)
(* SpecCpu: single instructions.  The work RAM holds one instruction of    *)
(* up to three bytes at 0x0200, an RTS at 0x0250 and one data byte in page *)
(* zero at the address the first operand byte names; the registers are     *)
(* drawn from boundary values.  The processor is stepped MaxCpuOps times.  *)
(***************************************************************************)
MaxCpuOps == 2

ProgramOrigin == 512

InitCpu ==
    /\ \E opcode \in {i.opcode : i \in instructions} \cup {2},
          b1 \in {0, 40, 80, 128, 255}, b2 \in {0, 2},
          a \in {0, 80, 127, 128, 255}, flags \in {36, 37, 230}, d \in {0, 1, 128},
          bld \in {"debug", "release"} :
           InitLoaded(0, PROGRAM_ROM_PAGE_SIZE, "Horizontal", bld,
                      [pc |-> ProgramOrigin, sp |-> CPU_SP_START_VALUE,
                       a |-> a, x |-> 1, y |-> 255, flags |-> flags],
                      ArraySet(ArraySet(ArraySet(ArraySet(ArraySet(ZeroArray,
                          ProgramOrigin + 80, 96),
                          b1, d),
                          ProgramOrigin, opcode),
                          ProgramOrigin + 1, b1),
                          ProgramOrigin + 2, b2))
    /\ loop = [phase |-> "idle", frames |-> 0, cycles |-> 0]

CpuStep ==
    /\ hist.ops < MaxCpuOps /\ panic = "none"
    /\ Commit(fetch_and_step(Machine), "step", cpu.pc, read_u8(Machine, cpu.pc).ret, "trace")
    /\ UNCHANGED loop

NextCpu == CpuStep

SpecCpu == InitCpu /\ [][NextCpu]_vars

(***************************************************************************)
(* SpecWord: 16-bit reads.  The work RAM holds a pointer whose low byte is *)
(* the last byte of a page (0x00FF, mirrored at 0x10FF) and JMP ($10FF) at *)
(* 0x0200; the page-wrapping read is applied at the ends of pages of the   *)
(* work RAM and of the cartridge, the processor is reset and stepped.      *)
(***************************************************************************)
InitWord ==
    /\ \E image \in {0, 1}, len \in {PROGRAM_ROM_PAGE_SIZE, 2 * PROGRAM_ROM_PAGE_SIZE},
          a \in {0, 128}, flags \in {36, 231}, bld \in {"debug", "release"} :
           InitLoaded(image, len, "Horizontal", bld,
                      [pc |-> ProgramOrigin, sp |-> CPU_SP_START_VALUE,
                       a |-> a, x |-> a + 1, y |-> 255, flags |-> flags],
                      (0 :> 18 @@ 255 :> 52 @@ 256 :> 86
                         @@ ProgramOrigin :> 108 @@ ProgramOrigin + 1 :> 255
                         @@ ProgramOrigin + 2 :> 16))
    /\ loop = [phase |-> "idle", frames |-> 0, cycles |-> 0]

WordReadWrapPage ==
    /\ hist.ops < MaxCpuOps /\ panic = "none"
    /\ \E address \in {4351, 255, 128, 2047, 49407, 65532, 65535} :
           Commit(read_u16_wrap_page(Machine, address), "read_u16_wrap_page",
                  address, 0, "trace")
    /\ UNCHANGED loop

WordReset ==
    /\ hist.ops < MaxCpuOps /\ panic = "none"
    /\ Commit(reset_interrupt(Machine), "reset_interrupt", 0, 0, "trace")
    /\ UNCHANGED loop

NextWord == WordReadWrapPage \/ WordReset \/ CpuStep

SpecWord == InitWord /\ [][NextWord]_vars

(***************************************************************************)
(* SpecBranch: one conditional branch, fetched from the first and the last *)
(* bytes of the work RAM and of its last mirror, or from the first and the *)
(* last bytes of the cartridge window, and stepped.                        *)
(***************************************************************************)
BranchOrigins == {0, 2046, 8190} \cup {ROM_START, 65532, 65534}

InitBranch ==
    /\ \E origin \in BranchOrigins,
          opcode \in {i.opcode : i \in {j \in instructions : j.addressing_mode = "Relative"}},
          offset \in {0, 3, 127, 128, 255}, flags \in {36, 37, 230},
          bld \in {"debug", "release"} :
           InitLoaded(3, PROGRAM_ROM_PAGE_SIZE, "Horizontal", bld,
                      [pc |-> origin, sp |-> CPU_SP_START_VALUE,
                       a |-> 0, x |-> 0, y |-> 0, flags |-> flags],
                      IF origin <= RAM_MIRRORS_END
                      THEN ArraySet(ArraySet(ZeroArray, origin % 2048, opcode),
                                    (origin + 1) % 2048, offset)
                      ELSE ZeroArray)
    /\ loop = [phase |-> "idle", frames |-> 0, cycles |-> 0]

NextBranch == CpuStep

SpecBranch == InitBranch /\ [][NextBranch]_vars

(***************************************************************************)
(* SpecIndexed: one instruction with an indexed addressing mode at 0x0200, *)
(* stepped.  Page zero holds the pointers 0x0234 (at 0x80), 0x03FF (at     *)
(* 0x00) and 0xFFFF (at 0xFF, its high byte at 0x00), and 0xAB at 0x0F.    *)
(***************************************************************************)
IndexedModes ==
    {"ZeroPageX", "ZeroPageY", "AbsoluteX", "AbsoluteY", "IndirectX", "IndirectY"}

InitIndexed ==
    /\ \E opcode \in {i.opcode : i \in {j \in instructions :
                                           j.addressing_mode \in IndexedModes}},
          b1 \in {0, 128, 129, 255}, b2 \in {0, 7, 255},
          x \in {1, 16, 255}, y \in {1, 255}, bld \in {"debug", "release"} :
           InitLoaded(0, PROGRAM_ROM_PAGE_SIZE, "Horizontal", bld,
                      [pc |-> ProgramOrigin, sp |-> CPU_SP_START_VALUE,
                       a |-> 90, x |-> x, y |-> y, flags |-> CPU_FLAGS_START_VALUE],
                      ArraySet(ArraySet(ArraySet(
                          (0 :> 255 @@ 1 :> 3 @@ 15 :> 171 @@ 128 :> 52 @@ 129 :> 2
                             @@ 255 :> 255),
                          ProgramOrigin, opcode), ProgramOrigin + 1, b1),
                          ProgramOrigin + 2, b2))
    /\ loop = [phase |-> "idle", frames |-> 0, cycles |-> 0]

NextIndexed == CpuStep

SpecIndexed == InitIndexed /\ [][NextIndexed]_vars

(***************************************************************************)
(* Claims                                                                  *)
(***************************************************************************)
IsControlPort(address) ==
    /\ address \in PPU_REGISTERS_START..PPU_REGISTERS_MIRRORS_END
    /\ address % 8 = 0

\* C1: in the run loop's sequence NMI-service runs only directly after a poll
\* that returned true, and only for a request that was raised since the last
\* service; a request left up by a tick is cleared by the very next poll, and
\* whenever the next opcode is about to be fetched it has been serviced.
C1_ServiceBeforeFetch ==
    [][/\ op'.name = "nmi_interrupt" =>
              (op.name = "run_poll" /\ ret = 1 /\ hist.credit)
       /\ loop'.phase = "step" => ~hist'.tick_request
       /\ (op.name = "run_tick" /\ ppu.nmi_interrupt) =>
              (op'.name = "run_poll" /\ ret' = 1 /\ ~ppu'.nmi_interrupt)]_vars

\* C1 witness: the request raised by a tick has been serviced and the opcode
\* at the NMI vector's target is the next to be fetched
C1_Witness ==
    /\ op.name = "nmi_interrupt" /\ loop.phase = "step"
    /\ cpu.pc = 49168 /\ cpu.sp = CPU_SP_START_VALUE - 3
    /\ ~hist.tick_request

\* C2 (as claimed): with NMI-enable set and the flag polled after every tick,
\* the poll returns true exactly once per frame: never a second time before
\* the frame completes, and once by the time the scanline counter is past 241.
C2_OncePerFrame ==
    /\ hist.polls_true <= 1
    /\ (loop.phase = "tick" /\ ppu.scanline > VBLANK_SCANLINE) => hist.polls_true = 1

\* C3: a tick that brings the scanline counter to 262 resets it to 0, clears
\* VBlank-status, forces the interrupt request off and returns true; every
\* other tick returns false.
C3_FrameBoundary ==
    [][op'.name = "tick" =>
        LET reaches262 ==
                /\ ppu.scanline = FRAME_SCANLINES - 1
                /\ ppu.cycles + op'.value >= SCANLINE_CYCLES
        IN  /\ reaches262 =>
                  /\ ppu'.scanline = 0
                  /\ ~contains(ppu'.status, VBLANK_STARTED)
                  /\ ~ppu'.nmi_interrupt
                  /\ ret' = 1
            /\ ~reaches262 => ret' = 0]_vars

\* C3 witness: a frame has just completed while NMI-enable was set
C3_Witness ==
    /\ op.name = "tick" /\ ret = 1 /\ ppu.scanline = 0
    /\ contains(ppu.control, GENERATE_NMI)

\* C4: a control write raises the interrupt request iff NMI-enable was clear
\* before it, is set by it and VBlank-status is set; any other control write
\* leaves the request flag as it was.
C4_ControlEdge ==
    [][(op'.name = "write_u8" /\ IsControlPort(op'.address)) =>
        LET edge == /\ ~contains(ppu.control, GENERATE_NMI)
                    /\ contains(op'.value, GENERATE_NMI)
                    /\ contains(ppu.status, VBLANK_STARTED)
        IN  /\ panic' = "none"
            /\ ppu'.control = op'.value
            /\ ppu'.nmi_interrupt = (edge \/ ppu.nmi_interrupt)]_vars

\* C4 witness: NMI-enable was just written to the control register inside
\* VBlank (past line 241, where no tick raises a request) and a request is up
C4_Witness ==
    /\ op.name = "write_u8" /\ IsControlPort(op.address)
    /\ op.value = GENERATE_NMI
    /\ ppu.scanline > VBLANK_SCANLINE
    /\ contains(ppu.status, VBLANK_STARTED)
    /\ ppu.nmi_interrupt

\* C5: while NMI-enable has never been set the interrupt request is never
\* up, yet VBlank-status is set by the tick that reaches scanline 241.
C5_NeverEnabled ==
    /\ ~hist.nmi_enabled_ever => ~ppu.nmi_interrupt
    /\ (op.name = "tick" /\ ppu.scanline = VBLANK_SCANLINE) =>
           contains(ppu.status, VBLANK_STARTED)

\* C5 witness: line 241 reached, VBlank-status set, NMI-enable never set
C5_Witness ==
    /\ ~hist.nmi_enabled_ever
    /\ op.name = "tick" /\ ppu.scanline = VBLANK_SCANLINE
    /\ contains(ppu.status, VBLANK_STARTED)
    /\ ~ppu.nmi_interrupt

\* C7: a write8 into the cartridge region, and a read8 or write8 at an
\* address outside every mapped range, panics: nothing is returned and the
\* RAM, the PPU and the CPU are as they were before the access.
C7_FatalAccess ==
    [][LET a == op'.address
           cartridge_write == op'.name = "write_u8" /\ a \in 32768..ROM_END
           unmapped == /\ op'.name \in {"read_u8", "write_u8"}
                       /\ a > PPU_REGISTERS_MIRRORS_END /\ a < 32768
                       /\ a # OAM_DMA_ADDRESS
       IN  (cartridge_write \/ unmapped) =>
               /\ panic' # "none"
               /\ ret' = -1
               /\ cpu_ram' = cpu_ram /\ ppu' = ppu /\ cpu' = cpu]_vars

\* C7 witness: a write to the program ROM has just failed with RAM and OAM
\* holding bytes written before it
C7_Witness ==
    /\ op.name = "write_u8" /\ op.address \in ROM_START..ROM_END
    /\ panic = "Invalid attempt to write to ROM"
    /\ cpu_ram # ZeroArray /\ ppu.oam # ZeroArray

\* C8: a read8 in 0x0000..0x1FFF returns the byte of the last write8 to an
\* address congruent to it modulo 0x0800 (0 if there was none), whatever was
\* written at non-congruent addresses in between.
C8_RamMirror ==
    (op.name = "read_u8" /\ op.address <= RAM_MIRRORS_END) =>
        /\ panic = "none"
        /\ ret = IF op.address % 2048 \in DOMAIN hist.ram
                 THEN hist.ram[op.address % 2048].value
                 ELSE 0

\* C8 witness: a non-zero byte is read back through another mirror than the
\* one it was written at, after a later write to a non-congruent address
C8_Witness ==
    /\ op.name = "read_u8" /\ op.address <= RAM_MIRRORS_END
    /\ op.address % 2048 \in DOMAIN hist.ram
    /\ LET w == hist.ram[op.address % 2048]
       IN  /\ w.address # op.address /\ w.value # 0 /\ ret = w.value
           /\ \E c \in DOMAIN hist.ram : hist.ram[c].at > w.at

\* C9: a read8 anywhere in the 32 KiB cartridge region 0x8000..0xFFFF
\* succeeds and returns the program byte at the offset from 0x8000, taken
\* modulo the buffer's length (so a 16 KiB buffer appears twice).
C9_RomMirror ==
    (op.name = "read_u8" /\ op.address \in 32768..ROM_END) =>
        /\ panic = "none"
        /\ ret = program_rom(rom, (op.address - 32768) % rom.program_rom_len)

\* C10: a write8 to 0x4014 succeeds and copies the 256 bytes of RAM page
\* `value` into OAM from the current OAM address on, wrapping at 256.
C10_SpriteDma ==
    [][(op'.name = "write_u8" /\ op'.address = OAM_DMA_ADDRESS) =>
           /\ panic' = "none"
           /\ ppu' = oam_dma_from(ppu, dma_page(Machine, op'.value), 0)]_vars

\* C6: NMI-service pushes PC (high byte first) and then the flags with Break
\* set and Break2 clear onto the stack page, leaving the stack pointer 3
\* lower (modulo 256); it sets InterruptDisable in the live flags, ticks the
\* PPU 6 times and loads PC from the word at 0xFFFA; A, X, Y and the other
\* flag bits keep their values.
C6_NmiService ==
    [][op'.name = "nmi_interrupt" =>
        LET slot(k) == STACK_PAGE_ADDRESS + ((cpu.sp - k) % 256)
            vector == read_u16(Machine, NMI_INTERRUPT_VECTOR_ADDRESS).ret
        IN  /\ panic' = "none"
            /\ ArrayGet(cpu_ram', slot(0)) = cpu.pc \div 256
            /\ ArrayGet(cpu_ram', slot(1)) = cpu.pc % 256
            /\ ArrayGet(cpu_ram', slot(2)) = remove(insert(cpu.flags, BREAK), BREAK_2)
            /\ \A i \in DOMAIN cpu_ram' : i \in {slot(0), slot(1), slot(2)} \/ i \in DOMAIN cpu_ram
            /\ cpu'.sp = (cpu.sp - 3) % 256
            /\ cpu'.flags = insert(cpu.flags, INTERRUPT_DISABLE)
            /\ ppu' = ppu_tick(Machine, 6).ppu
            /\ cpu'.pc = vector
            /\ cpu'.a = cpu.a /\ cpu'.x = cpu.x /\ cpu'.y = cpu.y]_vars

\* C11: a status read returns the status bits as they were before the read
\* (bit 7 set iff VBlank-status was set), then clears VBlank-status and puts
\* both write toggles in first-write state; the VRAM-address write that
\* follows it sets the high byte (masked to 14 bits) and leaves the low byte.
C11_StatusRead ==
    [][LET status_read(o) ==
               o.name = "read_u8" /\ BitAnd(o.address, PPU_MIRROR_DOWN_MASK) = 8194
           address_write(o) ==
               o.name = "write_u8" /\ BitAnd(o.address, PPU_MIRROR_DOWN_MASK) = 8198
       IN  /\ status_read(op') =>
                 /\ panic' = "none"
                 /\ ret' = ppu.status
                 /\ (ret' >= 128) = contains(ppu.status, VBLANK_STARTED)
                 /\ ~contains(ppu'.status, VBLANK_STARTED)
                 /\ ppu'.status = ppu.status % 128
                 /\ ppu'.vram_address.high_byte_active
                 /\ ppu'.scroll.x_scroll_active
                 /\ ppu' = [ppu EXCEPT !.status = ppu'.status,
                                       !.vram_address.high_byte_active = TRUE,
                                       !.scroll.x_scroll_active = TRUE]
           /\ (status_read(op) /\ address_write(op')) =>
                 /\ ppu'.vram_address.high_byte = op'.value % 64
                 /\ ppu'.vram_address.low_byte = ppu.vram_address.low_byte
                 /\ ~ppu'.vram_address.high_byte_active]_vars

\* C11 witness: a status read inside VBlank that found both toggles in
\* second-write state, after an odd number of address and of scroll writes
C11_Witness ==
    /\ op.name = "read_u8" /\ op.address = 8194
    /\ ret = VBLANK_STARTED
    /\ ~hist.before.high_byte_active /\ ~hist.before.x_scroll_active
    /\ ppu.vram_address.high_byte_active /\ ppu.scroll.x_scroll_active
    /\ ppu.vram_address.high_byte = 35 /\ ppu.vram_address.low_byte = 0
    /\ ppu.status = 0

\* C12: the VRAM address always lies in 0x0000..0x3FFF; two consecutive
\* address writes h then l, the first made in first-write state, leave the
\* address equal to (h*256 + l) mod 0x4000; a data read or write moves the
\* address by the increment amount modulo 0x4000.
C12_AddressRange ==
    [][LET address_write(o) == o.name = "write_u8" /\ o.address = 8198
           data_access(o) == o.name \in {"read_u8", "write_u8"} /\ o.address = 8199
           amount == IF contains(ppu.control, VRAM_ADDRESS_INCREMENT) THEN 32 ELSE 1
       IN  /\ get(ppu.vram_address) \in 0..16383
           /\ get(ppu'.vram_address) \in 0..16383
           /\ ppu'.vram_address.high_byte \in 0..63
           /\ ppu'.vram_address.low_byte \in 0..255
           /\ (address_write(op) /\ hist.before.high_byte_active /\ address_write(op')) =>
                 get(ppu'.vram_address) = (op.value * 256 + op'.value) % 16384
           /\ data_access(op') =>
                 get(ppu'.vram_address) \in
                     {get(ppu.vram_address), (get(ppu.vram_address) + amount) % 16384}
           /\ (data_access(op') /\ panic' = "none") =>
                 get(ppu'.vram_address) = (get(ppu.vram_address) + amount) % 16384]_vars

\* C12 witness: 0x63 then 0x05 were written from first-write state and the
\* address is 0x2305
C12_Witness ==
    /\ op = [name |-> "write_u8", address |-> 8198, value |-> 5]
    /\ hist.prev.op = [name |-> "write_u8", address |-> 8198, value |-> 99]
    /\ hist.prev.before.high_byte_active /\ ~hist.before.high_byte_active
    /\ get(ppu.vram_address) = 8965
    /\ ppu.vram_address.high_byte_active

C14_DataWrite ==
    [][LET data_read(o) == o.name = "read_u8" /\ o.address = 8199
           data_write(o) == o.name = "write_u8" /\ o.address = 8199
           amount == IF contains(ppu.control, VRAM_ADDRESS_INCREMENT) THEN 32 ELSE 1
           a == get(ppu.vram_address)
           advanced == get(ppu'.vram_address) = (a + amount) % 16384
           folded ==
               LET table == (a - VRAM_START) \div NAMETABLE_SIZE
               IN  NAMETABLE_SIZE * (IF ppu.mirroring = "Horizontal"
                                     THEN table \div 2 ELSE table % 2)
                       + (a % NAMETABLE_SIZE)
       IN  /\ (data_write(op') /\ a <= CHR_ROM_END) =>
                 /\ panic' # "none"
                 /\ ppu'.vram = ppu.vram /\ ppu'.palette_table = ppu.palette_table
           /\ (data_write(op') /\ a > CHR_ROM_END) =>
                 /\ panic' = "none"
                 /\ advanced
                 /\ a \in VRAM_START..VRAM_END =>
                       ppu'.vram = ArraySet(ppu.vram, folded, op'.value)
           /\ data_read(op') => advanced]_vars

\* C15 (as claimed): at every VRAM address in 0x3F00..0x3FFF a data read
\* succeeds and returns the palette entry at once, leaving the read buffer
\* alone, and a data write succeeds and stores into the 32-byte palette table.
C15_Palette ==
    [][LET data_read(o) == o.name = "read_u8" /\ o.address = 8199
           data_write(o) == o.name = "write_u8" /\ o.address = 8199
           a == get(ppu.vram_address)
           entry == (a - PALETTE_START) % 32
       IN  /\ (data_read(op') /\ a \in PALETTE_START..PALETTE_END) =>
                 /\ panic' = "none"
                 /\ ret' = ArrayGet(ppu.palette_table, entry)
                 /\ ppu'.data_buffer = ppu.data_buffer
           /\ (data_write(op') /\ a \in PALETTE_START..PALETTE_END) =>
                 /\ panic' = "none"
                 /\ ppu'.palette_table = ArraySet(ppu.palette_table, entry, op'.value)
                 /\ ppu'.vram = ppu.vram]_vars

\* C16: Horizontal mirroring folds nametables 0 and 1 onto physical bank 0
\* and 2 and 3 onto bank 1, Vertical folds 0 and 2 onto bank 0 and 1 and 3
\* onto bank 1, the offset inside the table kept; the physical index is
\* below 2048; data writes and reads use the folded index.
C16_NametableFolding ==
    [][LET data_read(o) == o.name = "read_u8" /\ o.address = 8199
           data_write(o) == o.name = "write_u8" /\ o.address = 8199
           a == get(ppu.vram_address)
           index(table, offset) ==
               mirror_down_vram(ppu.mirroring,
                                VRAM_START + table * NAMETABLE_SIZE + offset)
           bank(table) == IF ppu.mirroring = "Horizontal" THEN table \div 2
                          ELSE table % 2
           expected(address) ==
               NAMETABLE_SIZE * bank((address - VRAM_START) \div NAMETABLE_SIZE)
                   + (address % NAMETABLE_SIZE)
       IN  /\ \A offset \in {0, 5, 773, 1023} :
                 /\ \A table \in 0..3 : index(table, offset) \in 0..2047
                 /\ ppu.mirroring = "Horizontal" =>
                       /\ index(0, offset) = offset /\ index(1, offset) = offset
                       /\ index(2, offset) = NAMETABLE_SIZE + offset
                       /\ index(3, offset) = NAMETABLE_SIZE + offset
                 /\ ppu.mirroring = "Vertical" =>
                       /\ index(0, offset) = offset /\ index(2, offset) = offset
                       /\ index(1, offset) = NAMETABLE_SIZE + offset
                       /\ index(3, offset) = NAMETABLE_SIZE + offset
           /\ (data_write(op') /\ a \in VRAM_START..VRAM_END) =>
                 /\ panic' = "none"
                 /\ ppu'.vram = ArraySet(ppu.vram, expected(a), op'.value)
                 /\ DOMAIN ppu'.vram \subseteq 0..2047
           /\ (data_read(op') /\ a \in VRAM_START..VRAM_END) =>
                 /\ panic' = "none"
                 /\ ppu'.data_buffer = ArrayGet(ppu.vram, expected(a))]_vars

\* C16 witness: under Vertical mirroring a byte written at 0x2305 (table 0)
\* or its fold has just been read back through 0x2B05 (table 2)
C16_Witness ==
    /\ ppu.mirroring = "Vertical"
    /\ op = [name |-> "read_u8", address |-> 8199, value |-> 0]
    /\ hist.prev.op = [name |-> "write_u8", address |-> 8198, value |-> 5]
    /\ get(ppu.vram_address) = 11014
    /\ ppu.vram = (773 :> 102)
    /\ ppu.data_buffer = 102
    /\ panic = "none"

\* C17: an OAM-data write stores the byte at the OAM-address cursor and then
\* advances the cursor by one modulo 256; an OAM-data read returns the byte
\* at the cursor and changes nothing, so consecutive reads return the same
\* byte.
C17_OamData ==
    [][LET oam_read(o) == o.name = "read_u8" /\ o.address = 8196
           oam_write(o) == o.name = "write_u8" /\ o.address = 8196
       IN  /\ oam_write(op') =>
                 /\ panic' = "none"
                 /\ ppu'.oam = ArraySet(ppu.oam, ppu.oam_address, op'.value)
                 /\ ppu'.oam_address = (ppu.oam_address + 1) % 256
           /\ oam_read(op') =>
                 /\ panic' = "none"
                 /\ ret' = ArrayGet(ppu.oam, ppu.oam_address)
                 /\ ppu' = ppu
           /\ (oam_read(op) /\ oam_read(op')) => ret' = ret]_vars

\* C17 witness: the second of two consecutive reads of a byte written at
\* cursor 255 (the write wrapped the cursor to 0, the cursor was set back)
C17_Witness ==
    /\ op = [name |-> "read_u8", address |-> 8196, value |-> 0]
    /\ hist.prev.op = [name |-> "read_u8", address |-> 8196, value |-> 0]
    /\ ppu.oam_address = 255
    /\ ret = 102
    /\ ppu.oam = (255 :> 102)

\* C18: a sprite DMA of a 256-byte page stores page byte i at
\* OAM[(c + i) mod 256] for every i, c being the cursor when it starts; all
\* 256 OAM bytes are overwritten and the cursor ends equal to c.
C18_OamDma ==
    [][op'.name = "write_to_oam_dma" =>
          LET c == ppu.oam_address
              page == DmaPage(op'.value)
          IN  /\ panic' = "none"
              /\ \A i \in 0..255 : ArrayGet(ppu'.oam, (c + i) % 256) = page[i]
              /\ DOMAIN ppu'.oam \subseteq 0..255
              /\ ppu'.oam_address = c
              /\ ppu' = [ppu EXCEPT !.oam = ppu'.oam]]_vars

\* C18 witness: a DMA that started at cursor 255 over an OAM that held other
\* bytes: page byte 0 is at OAM[255], page byte 1 at OAM[0]
C18_Witness ==
    /\ op = [name |-> "write_to_oam_dma", address |-> 0, value |-> 3]
    /\ hist.prev.op = [name |-> "write_u8", address |-> 8195, value |-> 255]
    /\ ppu.oam_address = 255
    /\ ArrayGet(ppu.oam, 255) = 3 /\ ArrayGet(ppu.oam, 0) = 6
    /\ ArrayGet(ppu.oam, 5) = 3 * 6 + 3

\* C19: a 16-bit pull that directly follows a 16-bit push of v made from a
\* stack pointer of at least 2 (the push did not wrap) returns v and leaves
\* the stack pointer where it was before the push; the same for an 8-bit
\* pull after an 8-bit push made from a stack pointer of at least 1.
C19_StackRoundTrip ==
    /\ (/\ op.name = "pull_stack_u16"
        /\ hist.prev.op.name = "push_stack_u16"
        /\ hist.prev.before.sp >= 2) =>
            /\ panic = "none"
            /\ ret = hist.prev.op.value
            /\ cpu.sp = hist.prev.before.sp
    /\ (/\ op.name = "pull_stack_u8"
        /\ hist.prev.op.name = "push_stack_u8"
        /\ hist.prev.before.sp >= 1) =>
            /\ panic = "none"
            /\ ret = hist.prev.op.value
            /\ cpu.sp = hist.prev.before.sp

\* C19 witness: 0xCAFE was pushed from SP=0xFD in a debug build and has just
\* been pulled
C19_Witness ==
    /\ op.name = "pull_stack_u16"
    /\ hist.prev.op = [name |-> "push_stack_u16", address |-> 0, value |-> 51966]
    /\ hist.prev.before.sp = CPU_SP_START_VALUE
    /\ hist.before.sp = CPU_SP_START_VALUE - 2
    /\ build = "debug"
    /\ ret = 51966
    /\ cpu.sp = CPU_SP_START_VALUE

\* C20 (as claimed): from every stack pointer a push stores at 0x0100+SP and
\* leaves SP-1 modulo 256, a pull leaves SP+1 modulo 256 and reads there,
\* without fault; a 16-bit push or pull does what two 8-bit ones do (high
\* byte pushed first); every stack write lands in 0x0100..0x01FF.
C20_StackWrap ==
    [][LET slot(k) == STACK_PAGE_ADDRESS + ((cpu.sp + k) % 256)
       IN  /\ op'.name = "push_stack_u8" =>
                 /\ panic' = "none"
                 /\ cpu'.sp = (cpu.sp - 1) % 256
                 /\ cpu_ram' = ArraySet(cpu_ram, slot(0), op'.value)
           /\ op'.name = "pull_stack_u8" =>
                 /\ panic' = "none"
                 /\ cpu'.sp = (cpu.sp + 1) % 256
                 /\ ret' = ArrayGet(cpu_ram, slot(1))
           /\ op'.name = "push_stack_u16" =>
                 /\ panic' = "none"
                 /\ cpu'.sp = (cpu.sp - 2) % 256
                 /\ cpu_ram' = ArraySet(ArraySet(cpu_ram, slot(0), op'.value \div 256),
                                        slot(-1), op'.value % 256)
           /\ op'.name = "pull_stack_u16" =>
                 /\ panic' = "none"
                 /\ cpu'.sp = (cpu.sp + 2) % 256
                 /\ ret' = ArrayGet(cpu_ram, slot(1)) + 256 * ArrayGet(cpu_ram, slot(2))
           /\ DOMAIN cpu_ram' \subseteq STACK_PAGE_ADDRESS..(STACK_PAGE_ADDRESS + 255)]_vars

\* C21: a JSR at p (stack pointer at least 2) pushes p+2, high byte at
\* 0x0100+SP and low byte below it, and sets PC to its operand word; an RTS
\* (stack pointer at most 0xFD) pulls the word above the stack pointer and
\* sets PC to it plus one; an RTS that directly follows a JSR at p resumes at
\* p+3 with the stack pointer the JSR found.
C21_JsrRts ==
    [][LET p == cpu.pc
           cell(a) == ArrayGet(cpu_ram, a)
       IN  /\ (op'.name = "step" /\ op'.value = 32 /\ cpu.sp >= 2) =>
                 /\ panic' = "none"
                 /\ cpu'.pc = cell(p + 1) + 256 * cell(p + 2)
                 /\ cpu'.sp = cpu.sp - 2
                 /\ cpu_ram' = ArraySet(ArraySet(cpu_ram, STACK_PAGE_ADDRESS + cpu.sp,
                                                 (p + 2) \div 256),
                                        STACK_PAGE_ADDRESS + cpu.sp - 1, (p + 2) % 256)
           /\ (op'.name = "step" /\ op'.value = 96 /\ cpu.sp <= 253) =>
                 /\ panic' = "none"
                 /\ cpu'.pc = cell(STACK_PAGE_ADDRESS + cpu.sp + 1)
                              + 256 * cell(STACK_PAGE_ADDRESS + cpu.sp + 2) + 1
                 /\ cpu'.sp = cpu.sp + 2
                 /\ cpu_ram' = cpu_ram
           /\ (op'.name = "step" /\ op'.value = 96
                 /\ op.name = "step" /\ op.value = 32) =>
                 /\ panic' = "none"
                 /\ cpu'.pc = op.address + 3
                 /\ cpu'.sp = hist.before.sp]_vars

\* C21 witness: JSR $0250 at 0x0200 and the RTS at 0x0250 have been executed
C21_Witness ==
    /\ op = [name |-> "step", address |-> ProgramOrigin + 80, value |-> 96]
    /\ hist.prev.op = [name |-> "step", address |-> ProgramOrigin, value |-> 32]
    /\ hist.prev.before.sp = CPU_SP_START_VALUE
    /\ panic = "none"
    /\ cpu.pc = ProgramOrigin + 3
    /\ cpu.sp = CPU_SP_START_VALUE
    /\ ArrayGet(cpu_ram, STACK_PAGE_ADDRESS + CPU_SP_START_VALUE - 1) = 2

\* C22 (as claimed): for every address a the page-wrapping 16-bit read
\* returns read8(a) as the low byte and read8((a AND 0xFF00) OR ((a+1) AND
\* 0x00FF)) as the high byte, without fault; and JMP (Indirect) sets PC to
\* what this read returns at its operand word.
C22_WrapPage ==
    [][LET word(a) ==
               read_u8(Machine, a).ret
                   + 256 * read_u8(Machine, BitAnd(a, 65280) + ((a + 1) % 256)).ret
           cell(a) == ArrayGet(cpu_ram, a)
       IN  /\ op'.name = "read_u16_wrap_page" =>
                 /\ panic' = "none"
                 /\ ret' = word(op'.address)
           /\ (op'.name = "step" /\ op'.value = 108) =>
                 /\ panic' = "none"
                 /\ cpu'.pc = word(cell(cpu.pc + 1) + 256 * cell(cpu.pc + 2))]_vars

\* C28: a reset leaves A = 0, X = 0, the flags 0b0010_0100 and PC = the
\* little-endian word the bus reads at 0xFFFC / 0xFFFD; with a 16 KiB program
\* buffer that word is the buffer's bytes 0x3FFC and 0x3FFD.
C28_Reset ==
    [][op'.name = "reset_interrupt" =>
          /\ panic' = "none"
          /\ cpu'.a = 0
          /\ cpu'.x = 0
          /\ cpu'.flags = 36
          /\ cpu'.pc = read_u8(Machine, RESET_INTERRUPT_VECTOR_ADDRESS).ret
                       + 256 * read_u8(Machine, RESET_INTERRUPT_VECTOR_ADDRESS + 1).ret
          /\ rom.program_rom_len = PROGRAM_ROM_PAGE_SIZE =>
                cpu'.pc = program_rom(rom, PROGRAM_ROM_PAGE_SIZE - 4)
                          + 256 * program_rom(rom, PROGRAM_ROM_PAGE_SIZE - 3)]_vars

\* C28 witness: a console with a 16 KiB buffer whose reset vector is 0xC000
\* has been reset as its first operation
C28_Witness ==
    /\ op.name = "reset_interrupt"
    /\ hist.ops = 1
    /\ rom.image = 1 /\ rom.program_rom_len = PROGRAM_ROM_PAGE_SIZE
    /\ cpu = [pc |-> ROM_START, sp |-> CPU_SP_START_VALUE, a |-> 0, x |-> 0,
              y |-> 255, flags |-> CPU_FLAGS_START_VALUE]

\* C23 (as claimed): ADC with accumulator A, operand M and carry-in C leaves
\* A = (A + M + C) mod 256, Carry = (A + M + C > 255), Zero = (result = 0),
\* Negative = bit 7 of the result and Overflow = (the signed sum of A, M and C
\* is outside -128..127).  Checked on ADC immediate and ADC zero page.
C23_Adc ==
    [][LET cell(a) == ArrayGet(cpu_ram, a)
           M == IF op'.value = 105 THEN cell(cpu.pc + 1) ELSE cell(cell(cpu.pc + 1))
           C == IF contains(cpu.flags, CARRY) THEN 1 ELSE 0
           sum == cpu.a + M + C
           signed_sum == signed8(cpu.a) + signed8(M) + C
       IN  (op'.name = "step" /\ op'.value \in {105, 101}) =>
               /\ panic' = "none"
               /\ cpu'.a = sum % 256
               /\ contains(cpu'.flags, CARRY) = (sum > 255)
               /\ contains(cpu'.flags, ZERO) = (sum % 256 = 0)
               /\ contains(cpu'.flags, NEGATIVE) = (sum % 256 >= 128)
               /\ contains(cpu'.flags, OVERFLOW) = (signed_sum \notin -128..127)]_vars

\* C24: one step on an instruction of the table other than JMP, JSR, RTS,
\* RTI, BRK and a taken branch completes and leaves PC = PC-before + the
\* descriptor's length, which is 1 + the operand length of its addressing
\* mode.
C24_PcAdvance ==
    [][LET found == find_instruction(op'.value)
           i == found.instruction
           operand_length ==
               CASE i.addressing_mode = "None" -> 0
                 [] i.addressing_mode \in {"Absolute", "AbsoluteX", "AbsoluteY",
                                           "Indirect"} -> 2
                 [] OTHER -> 1
           taken ==
               CASE i.operation = "BCC" -> ~contains(cpu.flags, CARRY)
                 [] i.operation = "BCS" -> contains(cpu.flags, CARRY)
                 [] i.operation = "BEQ" -> contains(cpu.flags, ZERO)
                 [] i.operation = "BNE" -> ~contains(cpu.flags, ZERO)
                 [] i.operation = "BMI" -> contains(cpu.flags, NEGATIVE)
                 [] i.operation = "BPL" -> ~contains(cpu.flags, NEGATIVE)
                 [] i.operation = "BVC" -> ~contains(cpu.flags, OVERFLOW)
                 [] i.operation = "BVS" -> contains(cpu.flags, OVERFLOW)
                 [] OTHER -> FALSE
       IN  (/\ op'.name = "step" /\ found.found
            /\ i.operation \notin {"JMP", "JSR", "RTS", "RTI", "BRK"}
            /\ ~taken) =>
               /\ panic' = "none"
               /\ i.bytes = 1 + operand_length
               /\ cpu'.pc = cpu.pc + i.bytes]_vars

\* C24 witness: LDA #$FF at the origin has been executed
C24_Witness ==
    /\ op = [name |-> "step", address |-> ProgramOrigin, value |-> 169]
    /\ hist.ops = 1
    /\ panic = "none"
    /\ ArrayGet(cpu_ram, ProgramOrigin + 1) = 255
    /\ cpu.pc = ProgramOrigin + 2
    /\ cpu.a = 255
    /\ ~contains(cpu.flags, ZERO) /\ contains(cpu.flags, NEGATIVE)

\* C25: after a load, a transfer into A, X or Y, an increment or decrement of
\* memory or of X or Y, AND, ORA, EOR, a shift or rotate, ADC, SBC and PLA,
\* Zero = (result = 0) and Negative = bit 7 of the result, the result being
\* the register or the memory byte the instruction produced; STA, STX, STY,
\* JMP, JSR, RTS, the branches and the flag clear and set instructions leave
\* Zero and Negative as they were.
C25_ZeroNegative ==
    [][LET i == find_instruction(op'.value).instruction
           o == i.operation
           shifts == {"ASL", "LSR", "ROL", "ROR"}
           address ==
               read_address([Machine EXCEPT !.cpu.pc = cpu.pc + 1],
                            i.addressing_mode).ret
           result ==
               CASE o \in {"LDA", "TXA", "TYA", "PLA", "AND", "ORA", "EOR", "ADC", "SBC"}
                      -> cpu'.a
                 [] o \in {"LDX", "TAX", "TSX", "INX", "DEX"} -> cpu'.x
                 [] o \in {"LDY", "TAY", "INY", "DEY"} -> cpu'.y
                 [] o \in shifts /\ i.addressing_mode = "None" -> cpu'.a
                 [] OTHER -> ArrayGet(cpu_ram', address)
       IN  /\ (/\ op'.name = "step"
               /\ o \in {"LDA", "LDX", "LDY", "TAX", "TAY", "TSX", "TXA", "TYA",
                         "INC", "DEC", "INX", "INY", "DEX", "DEY", "AND", "ORA",
                         "EOR", "ADC", "SBC", "PLA"} \cup shifts) =>
                 /\ panic' = "none"
                 /\ contains(cpu'.flags, ZERO) = (result = 0)
                 /\ contains(cpu'.flags, NEGATIVE) = (result >= 128)
           /\ (/\ op'.name = "step"
               /\ o \in {"STA", "STX", "STY", "JMP", "JSR", "RTS", "BCC", "BCS",
                         "BEQ", "BNE", "BMI", "BPL", "BVC", "BVS", "CLC", "CLD",
                         "CLI", "CLV", "SEC", "SED", "SEI"}) =>
                 /\ panic' = "none"
                 /\ BitAnd(cpu'.flags, NEGATIVE + ZERO)
                        = BitAnd(cpu.flags, NEGATIVE + ZERO)]_vars

\* C25 witness: DEX has taken X from 1 to 0 with Zero and Negative both set
\* before; Zero is set and Negative clear
C25_Witness ==
    /\ op = [name |-> "step", address |-> ProgramOrigin, value |-> 202]
    /\ hist.ops = 1
    /\ panic = "none"
    /\ cpu.x = 0
    /\ contains(cpu.flags, OVERFLOW)
    /\ contains(cpu.flags, ZERO) /\ ~contains(cpu.flags, NEGATIVE)

\* C26: ASL, LSR, ROL and ROR set Carry to the bit shifted out (bit 7 for ASL
\* and ROL, bit 0 for LSR and ROR) and shift in 0 (ASL, LSR) or the old Carry
\* (ROL, ROR); in accumulator mode the result goes to A and memory is
\* untouched, in memory mode it goes back to the operand address and A is
\* untouched.
C26_Shifts ==
    [][LET i == find_instruction(op'.value).instruction
           o == i.operation
           address ==
               read_address([Machine EXCEPT !.cpu.pc = cpu.pc + 1],
                            i.addressing_mode).ret
           value == IF i.addressing_mode = "None" THEN cpu.a
                    ELSE ArrayGet(cpu_ram, address)
           C == IF contains(cpu.flags, CARRY) THEN 1 ELSE 0
           result ==
               CASE o = "ASL" -> (2 * value) % 256
                 [] o = "LSR" -> value \div 2
                 [] o = "ROL" -> ((2 * value) % 256) + C
                 [] o = "ROR" -> (value \div 2) + 128 * C
           shifted_out == IF o \in {"ASL", "ROL"} THEN value >= 128 ELSE value % 2 = 1
       IN  (op'.name = "step" /\ o \in {"ASL", "LSR", "ROL", "ROR"}) =>
               /\ panic' = "none"
               /\ contains(cpu'.flags, CARRY) = shifted_out
               /\ IF i.addressing_mode = "None"
                  THEN cpu'.a = result /\ cpu_ram' = cpu_ram
                  ELSE cpu_ram' = ArraySet(cpu_ram, address, result) /\ cpu'.a = cpu.a]_vars

\* C26 witness: ASL A with A = 0b1000_0000 and the flags 0b0010_0100 has left
\* A = 0 with Carry and Zero set and Negative clear
C26_Witness ==
    /\ op = [name |-> "step", address |-> ProgramOrigin, value |-> 10]
    /\ hist.ops = 1
    /\ panic = "none"
    /\ cpu.a = 0
    /\ cpu.flags = CPU_FLAGS_START_VALUE + CARRY + ZERO
    /\ cpu_ram = (ProgramOrigin :> 10 @@ ProgramOrigin + 80 :> 96)

\* C27 (amended): PHP pushes the flag byte with the Break2 bit forced high
\* and leaves the flag register unchanged; PLP replaces the flag register by
\* the pulled byte with the Break bit forced high and the Break2 bit forced
\* low; a PLP that directly follows a PHP restores the stack pointer and
\* every flag other than the Break/Break2 pair.
C27_PhpPlp ==
    [][LET pulled == ArrayGet(cpu_ram, STACK_PAGE_ADDRESS + cpu.sp + 1)
           others(bits) == BitAnd(bits, 255 - BREAK - BREAK_2)
       IN  /\ (op'.name = "step" /\ op'.value = 8) =>
                 /\ panic' = "none"
                 /\ cpu_ram' = ArraySet(cpu_ram, STACK_PAGE_ADDRESS + cpu.sp,
                                        BitOr(cpu.flags, BREAK_2))
                 /\ cpu'.flags = cpu.flags
                 /\ cpu'.sp = cpu.sp - 1
           /\ (op'.name = "step" /\ op'.value = 40) =>
                 /\ panic' = "none"
                 /\ cpu'.flags = BitAnd(BitOr(pulled, BREAK), 255 - BREAK_2)
                 /\ cpu'.sp = cpu.sp + 1
           /\ (op'.name = "step" /\ op'.value = 40
                 /\ op.name = "step" /\ op.value = 8) =>
                 /\ cpu'.sp = hist.before.sp
                 /\ others(cpu'.flags) = others(cpu.flags)]_vars

\* C27 witness: PHP at 0x0200 pushed 0b0011_0101 for the flags 0b0010_0101,
\* and the PLP after it has pulled that byte
C27_Witness ==
    /\ op = [name |-> "step", address |-> ProgramOrigin + 1, value |-> 40]
    /\ hist.prev.op = [name |-> "step", address |-> ProgramOrigin, value |-> 8]
    /\ panic = "none"
    /\ ArrayGet(cpu_ram, STACK_PAGE_ADDRESS + CPU_SP_START_VALUE) = 53
    /\ cpu.flags = 37
    /\ cpu.sp = CPU_SP_START_VALUE

\* C27 (as claimed): PLP replaces the flag register by the pulled byte with
\* the Break2 bit forced low, the other seven bits being those pulled.
C27_PlpAsClaimed ==
    [][(op'.name = "step" /\ op'.value = 40) =>
          /\ panic' = "none"
          /\ cpu'.flags = BitAnd(ArrayGet(cpu_ram, STACK_PAGE_ADDRESS + cpu.sp + 1),
                                 255 - BREAK_2)]_vars

\* C29 (as claimed): a step on an opcode that has no descriptor in the table
\* stops emulation with a diagnostic that identifies the opcode: the
\* diagnostic of one absent opcode is not the diagnostic of another.
C29_UnknownOpcode ==
    [][LET absent == {o \in 0..255 : ~find_instruction(o).found}
           diagnostic(o) ==
               fetch_and_step([Machine EXCEPT !.cpu_ram = ArraySet(@, cpu.pc, o)]).panic
       IN  (op'.name = "step" /\ op'.value \in absent /\ cpu.pc < 2048) =>
               /\ panic' # "none"
               /\ \A o \in absent \ {op'.value} : diagnostic(o) # panic']_vars

\* C30 (as claimed): VBlank-status goes from clear to set only in a tick that
\* takes the scanline counter into 241 from another line; so once a status
\* read has cleared it, it stays clear until the counter next enters 241.
C30_VblankOnce ==
    [][(~contains(ppu.status, VBLANK_STARTED) /\ contains(ppu'.status, VBLANK_STARTED)) =>
          /\ op'.name = "tick"
          /\ ppu.scanline # VBLANK_SCANLINE
          /\ ppu'.scanline = VBLANK_SCANLINE]_vars

\* C31: every bus read or write at an address a of 0x2000..0x3FFF behaves
\* exactly like the same access to the port 0x2000 + (a mod 8).  In every state
\* the chip reaches, a read and a write at each of the eight ports taken at the
\* mirrors 85 and 1023 (the last ends at 0x3FFF) give the machine and
\* the value the access to the port itself gives, and the access a step performs
\* in that range leaves the machine the access to the port would leave.
C31_RegisterMirrors ==
    [][LET port(a) == PPU_REGISTERS_START + (a % 8)
           mirrors == {PPU_REGISTERS_START + 8 * k + p :
                           k \in {85, 1023}, p \in 0..7}
           a1 == op'.address
       IN  /\ \A a \in mirrors :
                /\ a \in PPU_REGISTERS_START..PPU_REGISTERS_MIRRORS_END
                /\ read_u8(Machine, a) = read_u8(Machine, port(a))
                /\ write_u8(Machine, a, 99) = write_u8(Machine, port(a), 99)
           /\ (op'.name = "read_u8" /\ a1 \in PPU_REGISTERS_START..PPU_REGISTERS_MIRRORS_END)
                  => Machine' = read_u8(Machine, port(a1))
           /\ (op'.name = "write_u8" /\ a1 \in PPU_REGISTERS_START..PPU_REGISTERS_MIRRORS_END)
                  => Machine' = write_u8(Machine, port(a1), op'.value)]_vars

\* The status port has been read at its mirror 0x3FFA during vertical blank:
\* the read returned the VBlank bit and cleared it, as a read of 0x2002 does.
C31_Witness ==
    /\ op.name = "read_u8" /\ op.address = 16378
    /\ panic = "none"
    /\ ret = VBLANK_STARTED
    /\ ~contains(ppu.status, VBLANK_STARTED)
    /\ ppu.scanline = 241

\* C32: a write8 to the status port (0x2002 or a mirror of it) and a read8 of
\* a write-only port (control, mask, OAM address, scroll, VRAM address, at any
\* mirror) panic and leave the graphics chip as it was: no write toggle
\* flips, no address moves, no status bit changes; nor do the RAM and the CPU
\* change.
C32_FatalRegisterAccess ==
    [][LET a == op'.address
           in_range == a \in PPU_REGISTERS_START..PPU_REGISTERS_MIRRORS_END
           status_write == op'.name = "write_u8" /\ in_range /\ a % 8 = 2
           write_only_read == op'.name = "read_u8" /\ in_range /\ a % 8 \in {0, 1, 3, 5, 6}
       IN  (status_write \/ write_only_read) =>
               /\ panic' # "none"
               /\ ret' = -1
               /\ ppu' = ppu
               /\ cpu_ram' = cpu_ram /\ cpu' = cpu]_vars

\* A write to the status port at its mirror 0x3FFA has just failed after a
\* scroll write and a VRAM-address write: both toggles stay flipped and the
\* address byte stays written.
C32_Witness ==
    /\ op.name = "write_u8" /\ op.address = 16378
    /\ panic = "write to read-only PPU address"
    /\ ~ppu.scroll.x_scroll_active
    /\ ~ppu.vram_address.high_byte_active
    /\ ppu.vram_address.high_byte = 38

\* C33: scroll writes alternate between X-scroll and Y-scroll, starting with X
\* after construction or a status read; the scroll toggle and the
\* VRAM-address toggle are independent: a scroll write changes the scroll
\* component its toggle selects and the toggle, and nothing of the VRAM
\* address or its toggle; a VRAM-address write flips its own toggle and
\* changes nothing of the scroll register.
C33_ScrollToggle ==
    [][LET status_read(o) ==
               o.name = "read_u8" /\ BitAnd(o.address, PPU_MIRROR_DOWN_MASK) = 8194
           scroll_write(o) == o.name = "write_u8" /\ o.address = 8197
           address_write(o) == o.name = "write_u8" /\ o.address = 8198
           v == op'.value
       IN  /\ scroll_write(op') =>
                 /\ panic' = "none"
                 /\ ppu' = [ppu EXCEPT
                              !.scroll = IF ppu.scroll.x_scroll_active
                                         THEN [x_scroll |-> v, y_scroll |-> @.y_scroll,
                                               x_scroll_active |-> FALSE]
                                         ELSE [x_scroll |-> @.x_scroll, y_scroll |-> v,
                                               x_scroll_active |-> TRUE]]
                 /\ ppu'.vram_address = ppu.vram_address
           /\ ((op.name = "new" \/ status_read(op)) /\ scroll_write(op')) =>
                 /\ ppu'.scroll.x_scroll = v /\ ppu'.scroll.y_scroll = ppu.scroll.y_scroll
           /\ (scroll_write(op) /\ scroll_write(op')) =>
                 ppu.scroll.x_scroll_active = ~hist.before.x_scroll_active
           /\ address_write(op') =>
                 /\ ppu'.scroll = ppu.scroll
                 /\ ppu'.vram_address.high_byte_active
                        = ~ppu.vram_address.high_byte_active]_vars

\* A scroll write has set the Y component (X was set before it) while the
\* VRAM-address toggle was in second-write state, and that toggle is still
\* in second-write state.
C33_Witness ==
    /\ op.name = "write_u8" /\ op.address = 8197
    /\ ~hist.before.x_scroll_active /\ ppu.scroll.x_scroll_active
    /\ ppu.scroll.x_scroll = 99 /\ ppu.scroll.y_scroll = 99
    /\ ~hist.before.high_byte_active /\ ~ppu.vram_address.high_byte_active

\* C34: each of the eight conditional branches is taken exactly when its flag
\* has the tested value (BCC: Carry clear, BCS: Carry set, BEQ: Zero set, BNE:
\* Zero clear, BMI: Negative set, BPL: Negative clear, BVC: Overflow clear,
\* BVS: Overflow set); when taken PC = (address after the 2-byte instruction +
\* the signed 8-bit displacement) mod 65536, for every PC and displacement;
\* when not taken PC = address after the instruction; no flag changes.
C34_Branches ==
    [][LET i == find_instruction(op'.value).instruction
           o == i.operation
           after == (cpu.pc + 2) % 65536
           displacement ==
               signed8(read_u8(Machine, (cpu.pc + 1) % 65536).ret)
           has(flag) == contains(cpu.flags, flag)
           taken == CASE o = "BCC" -> ~has(CARRY)
                      [] o = "BCS" -> has(CARRY)
                      [] o = "BEQ" -> has(ZERO)
                      [] o = "BNE" -> ~has(ZERO)
                      [] o = "BMI" -> has(NEGATIVE)
                      [] o = "BPL" -> ~has(NEGATIVE)
                      [] o = "BVC" -> ~has(OVERFLOW)
                      [] o = "BVS" -> has(OVERFLOW)
       IN  (op'.name = "step" /\ find_instruction(op'.value).found
              /\ i.addressing_mode = "Relative") =>
               /\ panic' = "none"
               /\ cpu'.pc = IF taken THEN (after + displacement) % 65536 ELSE after
               /\ cpu' = [cpu EXCEPT !.pc = cpu'.pc]
               /\ cpu_ram' = cpu_ram /\ ppu' = ppu]_vars

\* C35: indexed addressing wraps for all operand and index values: ZeroPageX/Y
\* yields (byte + X/Y) mod 256; AbsoluteX/Y yields (word + X/Y) mod 65536;
\* IndirectX reads its 2-byte target with both bytes in page zero, at
\* (byte + X) mod 256 and the byte after it modulo 256; IndirectY reads its
\* base likewise at byte and adds Y modulo 65536.  A store writes its register
\* to that address exactly as a bus write there does, and a load leaves in its
\* register what a bus read there returns.
C35_IndexedAddressing ==
    [][LET i == find_instruction(op'.value).instruction
           o == i.operation
           mode == i.addressing_mode
           byte == ArrayGet(cpu_ram, ProgramOrigin + 1)
           word == byte + 256 * ArrayGet(cpu_ram, ProgramOrigin + 2)
           page_zero_word(p) ==
               ArrayGet(cpu_ram, p) + 256 * ArrayGet(cpu_ram, (p + 1) % 256)
           address ==
               CASE mode = "ZeroPageX" -> (byte + cpu.x) % 256
                 [] mode = "ZeroPageY" -> (byte + cpu.y) % 256
                 [] mode = "AbsoluteX" -> (word + cpu.x) % 65536
                 [] mode = "AbsoluteY" -> (word + cpu.y) % 65536
                 [] mode = "IndirectX" -> page_zero_word((byte + cpu.x) % 256)
                 [] mode = "IndirectY" -> (page_zero_word(byte) + cpu.y) % 65536
           after == cpu.pc + i.bytes
           reg == CASE o \in {"STA", "LDA"} -> "a"
                    [] o \in {"STX", "LDX"} -> "x"
                    [] o \in {"STY", "LDY"} -> "y"
           written == write_u8(Machine, address, cpu[reg])
           read == read_u8(Machine, address)
       IN  (op'.name = "step" /\ cpu.pc = ProgramOrigin
              /\ find_instruction(op'.value).found /\ mode \in IndexedModes) =>
               /\ address < 256 \/ mode \notin {"ZeroPageX", "ZeroPageY"}
               /\ o \in {"STA", "STX", "STY"} =>
                     /\ panic' = written.panic
                     /\ cpu_ram' = written.cpu_ram /\ ppu' = written.ppu
                     /\ cpu' = [cpu EXCEPT !.pc = after]
               /\ o \in {"LDA", "LDX", "LDY"} =>
                     /\ panic' = read.panic
                     /\ cpu_ram' = cpu_ram /\ ppu' = read.ppu
                     /\ Ok(read) => /\ cpu'[reg] = read.ret
                                    /\ cpu'.pc = after]_vars

\* STA ($FF),Y has been stepped with Y = 1: the base 0xFFFF was read from 0xFF
\* and 0x00 and the sum wrapped to 0x0000, where the accumulator now is.
C35_Witness ==
    /\ op.name = "step" /\ op.address = ProgramOrigin /\ op.value = 145
    /\ panic = "none"
    /\ ArrayGet(cpu_ram, ProgramOrigin + 1) = 255 /\ ArrayGet(cpu_ram, 255) = 255
    /\ cpu.y = 1 /\ cpu.a = 90
    /\ ArrayGet(cpu_ram, 0) = 90
    /\ cpu.pc = ProgramOrigin + 2

\* C36: for every accumulator A, operand M and carry-in C, SBC leaves
\* A = (A - M - (1 - C)) mod 256, Carry = (A >= M + (1 - C)), i.e. no borrow,
\* Overflow = (the signed value of A - M - (1 - C) lies outside -128..127),
\* Zero = (result = 0) and Negative = bit 7 of the result; the other flags,
\* X, Y, the stack pointer and the memory keep their values.
C36_Sbc ==
    [][LET i == find_instruction(op'.value).instruction
           address == read_address([Machine EXCEPT !.cpu.pc = cpu.pc + 1],
                                   i.addressing_mode).ret
           A == cpu.a
           M == ArrayGet(cpu_ram, address)
           C == IF cpu.flags % 2 = 1 THEN 1 ELSE 0
           difference == A - M - (1 - C)
           as_signed(v) == IF v >= 128 THEN v - 256 ELSE v
           signed_difference == as_signed(A) - as_signed(M) - (1 - C)
           result == difference % 256
           bit(flags, n) == (flags \div n) % 2 = 1
       IN  (op'.name = "step" /\ cpu.pc = ProgramOrigin
              /\ find_instruction(op'.value).found /\ i.operation = "SBC") =>
               /\ panic' = "none"
               /\ address < 2048
               /\ cpu'.a = result
               /\ bit(cpu'.flags, 1) = (A >= M + (1 - C))
               /\ bit(cpu'.flags, 64) = (signed_difference \notin -128..127)
               /\ bit(cpu'.flags, 2) = (result = 0)
               /\ bit(cpu'.flags, 128) = (result >= 128)
               /\ \A n \in {4, 8, 16, 32} : bit(cpu'.flags, n) = bit(cpu.flags, n)
               /\ cpu' = [cpu EXCEPT !.a = result, !.flags = cpu'.flags,
                                     !.pc = cpu.pc + i.bytes]
               /\ cpu_ram' = cpu_ram /\ ppu' = ppu]_vars

\* SBC #$80 has been stepped with A = 0x00 and Carry clear: 0 - (-128) - 1 is
\* 127, so A = 0x7F with a borrow (Carry clear) and no signed overflow, though
\* 0 - (-128) alone overflows.
C36_Witness ==
    /\ op.name = "step" /\ op.address = ProgramOrigin /\ op.value = 233
    /\ hist.ops = 1 /\ panic = "none"
    /\ ArrayGet(cpu_ram, ProgramOrigin + 1) = 128
    /\ cpu.a = 127
    /\ ~contains(cpu.flags, CARRY) /\ ~contains(cpu.flags, OVERFLOW)
    /\ ~contains(cpu.flags, ZERO) /\ ~contains(cpu.flags, NEGATIVE)

C38_Bit ==
    [][LET i == find_instruction(op'.value).instruction
           address == read_address([Machine EXCEPT !.cpu.pc = cpu.pc + 1],
                                   i.addressing_mode).ret
           M == ArrayGet(cpu_ram, address)
           bit(v, n) == (v \div n) % 2 = 1
           common == {n \in {1, 2, 4, 8, 16, 32, 64, 128} : bit(cpu.a, n) /\ bit(M, n)}
       IN  (op'.name = "step" /\ cpu.pc = ProgramOrigin
              /\ find_instruction(op'.value).found /\ i.operation = "BIT") =>
               /\ panic' = "none"
               /\ address < 2048
               /\ bit(cpu'.flags, 64) = bit(M, 64)
               /\ bit(cpu'.flags, 128) = bit(M, 128)
               /\ bit(cpu'.flags, 2) = (common = {})
               /\ \A n \in {1, 4, 8, 16, 32} : bit(cpu'.flags, n) = bit(cpu.flags, n)
               /\ cpu' = [cpu EXCEPT !.flags = cpu'.flags, !.pc = cpu.pc + i.bytes]
               /\ cpu_ram' = cpu_ram /\ ppu' = ppu]_vars

\* BIT $0250 has been stepped with A = 0x80, the operand 0x60 and the flags
\* Negative, Overflow and Zero clear and Carry set before it: A AND M is 0, so
\* Zero is set; Overflow is set from bit 6 of the operand, Negative stays
\* clear and Carry stays set.
C38_Witness ==
    /\ op.name = "step" /\ op.address = ProgramOrigin /\ op.value = 44
    /\ hist.ops = 1 /\ panic = "none"
    /\ ArrayGet(cpu_ram, ProgramOrigin + 1) = 80 /\ ArrayGet(cpu_ram, ProgramOrigin + 2) = 2
    /\ ArrayGet(cpu_ram, ProgramOrigin + 80) = 96
    /\ cpu.a = 128
    /\ cpu.flags = 37 + ZERO + OVERFLOW

\* C39: in every state reached through ticks of at most 341 elapsed ticks each
\* interleaved with register accesses and polls, the scanline counter is in
\* 0..261 and the cycle accumulator in 0..340, and VBlank-status set or an
\* interrupt request pending implies that the scanline counter is in 241..261.
C39_TickInvariant ==
    /\ ppu.scanline \in 0..(FRAME_SCANLINES - 1)
    /\ ppu.cycles \in 0..(SCANLINE_CYCLES - 1)
    /\ (contains(ppu.status, VBLANK_STARTED) \/ ppu.nmi_interrupt) =>
           ppu.scanline \in VBLANK_SCANLINE..(FRAME_SCANLINES - 1)

\* On the last scanline of the frame, part of the way through it, a control
\* write has enabled NMI generation with VBlank-status still set, and the
\* request is pending.
C39_Witness ==
    /\ op.name = "write_u8" /\ op.value = GENERATE_NMI
    /\ ppu.scanline = FRAME_SCANLINES - 1 /\ ppu.cycles > 0
    /\ contains(ppu.status, VBLANK_STARTED)
    /\ ppu.nmi_interrupt

\* C40: NMI-service followed by an RTI executed with the stack pointer at its
\* post-service value restores PC and the stack pointer to their values
\* before the interrupt, and the flags to their values before the interrupt
\* except for the Break/Break2 pair: InterruptDisable, which the service set,
\* returns to the value it had.  A, X and Y are untouched by both.
C40_NmiRti ==
    [][LET bit(flags, n) == (flags \div n) % 2 = 1
           interrupted == [pc |-> op.address, flags |-> op.value,
                           sp |-> hist.before.sp]
       IN  (op.name = "nmi_interrupt" /\ panic = "none"
              /\ op'.name = "step" /\ op'.value = 64) =>
               /\ panic' = "none"
               /\ cpu'.pc = interrupted.pc
               /\ cpu'.sp = interrupted.sp
               /\ cpu.sp = (interrupted.sp - 3) % 256
               /\ bit(cpu.flags, INTERRUPT_DISABLE)
               /\ \A n \in {CARRY, ZERO, INTERRUPT_DISABLE, DECIMAL, OVERFLOW, NEGATIVE} :
                      bit(cpu'.flags, n) = bit(interrupted.flags, n)
               /\ cpu'.a = cpu.a /\ cpu'.x = cpu.x /\ cpu'.y = cpu.y]_vars

\* The RTI at 0xC010 has returned from an NMI-service that interrupted the
\* program at 0xCAFE with the stack pointer 0xFD and the flags Negative, Break
\* and Carry: InterruptDisable is clear again.
C40_Witness ==
    /\ op.name = "step" /\ op.address = 49168 /\ op.value = 64
    /\ hist.prev.op.name = "nmi_interrupt"
    /\ hist.prev.op.address = 51966
    /\ hist.prev.op.value = NEGATIVE + BREAK + CARRY
    /\ panic = "none"
    /\ cpu.pc = 51966 /\ cpu.sp = CPU_SP_START_VALUE
    /\ cpu.flags = NEGATIVE + BREAK + CARRY

====
